---- MODULE Spec2Model ----
(***************************************************************************)
(* Sampling-and-alerting loop of the memory monitor (app.js, carried in    *)
(* src/install.sh lines 121-882): the cron-driven tick of runMonitoring,   *)
(* the metric readers, the threshold checks and sendTelegramAlert with its *)
(* rate limiter and retry loop.                                            *)
(*                                                                         *)
(* Time is the wall clock in whole seconds (Math.floor(Date.now()/1000)).  *)
(* A step of a tick is the code between two awaits.  I/O steps complete in *)
(* the second in which they start; the clock advances only while every     *)
(* tick in flight waits for a timer (the 1 s network sampling wait, the    *)
(* 2 s retry wait), and then jumps to the next timer expiry or cron match. *)
(* node-cron does not wait for the callback of the previous tick, so ticks *)
(* overlap when a tick outlasts the interval; each tick in flight runs in  *)
(* a slot.                                                                 *)
(***************************************************************************)
EXTENDS Integers, Sequences, FiniteSets, TLC

\* ---------------------------------------------------------------- bounds
MaxTicks == 12         \* check intervals explored with RAM as the only monitor
ShortTicks == 1        \* check intervals explored with an optional monitor on
MaxReading == 1        \* largest reading / threshold the environment yields
Epoch == 600           \* wall clock (seconds) at process start
MaxRows == 3           \* rows inserted into the table `metrics`
MaxTokenLen == 11      \* longest bot token

\* ------------------------------------------------------- program constants
maxRetries == 3        \* retry loop of sendTelegramAlert
retryDelay == 2        \* setTimeout(resolve, 2000)
sampleDelay == 1       \* setTimeout(resolve, 1000) in checkNetworkUsage
cooldownFactor == 10   \* checkInterval * 10

Kinds == {"ram", "cpu", "disk", "swap", "load", "network"}
OptKinds == Kinds \ {"ram"}
KindOrder == <<"ram", "cpu", "disk", "swap", "load", "network">>
MetricKeys == {"ram", "cpu", "disk", "swap", "load", "rx", "tx"}
ScalarKeys == {"ram", "cpu", "disk", "swap", "load"}
Slots == {1, 2}
Values == 0..MaxReading

VARIABLES
  cfg,             \* config.get(...): checkInterval, monitor, threshold, database, prometheus
  env,             \* the environment of the run: is the Telegram API reachable at the
                   \* start, can the database, the gauges and the status file fail
  now,             \* wall clock, whole seconds
  sched,           \* "testing" (self-test in flight) | "running" (cron scheduled)
  lastFire,        \* second of the last cron match that was handled
  lastAlertTimes,  \* the global map of app.js
  ticks,           \* slot -> the tick callback running in it
  lastSuccessAt,   \* kind -> second at which the last delivery of that kind succeeded (0: never)
  lastD,           \* kind -> the latest dispatch (sendTelegramAlert call) of that kind
  alertCounters    \* kind -> prometheus.<kind>Alerts, the counters of sent alerts

\* the state of the loop
loopVars == <<cfg, env, now, sched, lastFire, lastAlertTimes, ticks,
              lastSuccessAt, lastD, alertCounters>>

\* The functions that the loop calls with values it only passes on (byte
\* counters, table rows, gauge values, the lines of the status file, the bot
\* token) are modelled on their own, each in a specification of its own.
VARIABLES
  reader,          \* one call of a metric reader: what the OS returns, what the reader returns
  metricsTable,    \* the rows of the table `metrics`, in the order of their insertion
  readBack,        \* the rows returned by the last getRecentMetrics(1)
  gauges,          \* the seven gauges of setupPrometheus
  statusFile,      \* the lines of memory-monitor-status.tmp after `Last check`
  botToken,        \* telegram.botToken
  logLines         \* what logger.error wrote about the token

\* the state of those functions
side == <<reader, metricsTable, readBack, gauges, statusFile, botToken, logLines>>

vars == <<loopVars, side>>

\* ------------------------------------------------------------- helpers
Min(S) == CHOOSE x \in S : \A y \in S : x <= y

\* the fields of a dispatch (one sendTelegramAlert call) before it starts
NoDispatch ==
  [exists |-> FALSE, start |-> 0, attempted |-> FALSE, recorded |-> FALSE, owner |-> 0]

NoCall ==
  [currentTime |-> 0, seenLast |-> 0, passed |-> FALSE,
   retry |-> 0, success |-> FALSE, timer |-> 0,
   attempts |-> 0, wrote |-> FALSE, recs |-> <<>>, result |-> "none",
   hostReads |-> 0, message |-> <<>>, prev |-> NoDispatch]

\* the sink actions of a tick: storeMetrics, updatePrometheusMetrics, updateStatusFile
SinkNames == {"metrics", "gauges", "status"}

IdleTick ==
  [pc |-> "idle", idx |-> 1, metrics |-> [m \in MetricKeys |-> 0],
   started |-> {}, probes |-> {}, sinks |-> [x \in SinkNames |-> "none"],
   call |-> NoCall]

KindOf(t) == KindOrder[t.idx]

\* node-cron pattern `*/N * * * * *`: the seconds field matches s in 0..59 with s % N = 0
CronMatches(t, N) == ((t % 60) % N) = 0

CronDue == sched = "running" /\ lastFire < now /\ CronMatches(now, cfg.checkInterval)

FreeSlots == {s \in Slots : ticks[s].pc = "idle"}

\* the last second explored for cron firings
Horizon ==
  Epoch + cfg.checkInterval *
    (IF \E k \in OptKinds : cfg.monitor[k] THEN ShortTicks ELSE MaxTicks)

CanFire == now <= Horizon /\ FreeSlots # {}

\* db && config.get('database.enabled')
HasDb == cfg.db /\ cfg.database

\* database.type
Backends == {"sqlite", "mysql", "postgresql"}

\* whether the value kept by `db = setupDatabase()` has the methods storeMetrics
\* and storeAlert: setupSqlite() returns the interface object; setupMysql and
\* setupPostgresql are async functions, setupDatabase returns their Promise as
\* it is and nothing awaits it, so that db is a Promise (not null, no such methods)
HandleHasMethods == cfg.dbType = "sqlite"

\* ------------------------------------------------------------- readers
checkRamUsage(os) == os["ram"]
checkCpuUsage(os) == IF ~cfg.monitor["cpu"] THEN 0 ELSE os["cpu"]
checkDiskUsage(os) == IF ~cfg.monitor["disk"] THEN 0 ELSE os["disk"]
checkSwapUsage(os) == IF ~cfg.monitor["swap"] THEN 0 ELSE os["swap"]
checkLoadAverage(os) == IF ~cfg.monitor["load"] THEN 0 ELSE os["load"]
checkNetworkUsage(os) ==
  IF ~cfg.monitor["network"] THEN <<0, 0>> ELSE <<os["rx"], os["tx"]>>

\* ------------------------------------------------- threshold checks of the tick
\* the comparison of the RAM check, reversed
BreachRamReversed(m) == m["ram"] <= cfg.threshold["ram"]
BreachRam(m) == m["ram"] >= cfg.threshold["ram"]
\* the CPU check with a strict comparison
BreachCpuStrict(m) == cfg.monitor["cpu"] /\ m["cpu"] > cfg.threshold["cpu"]
BreachCpu(m) == cfg.monitor["cpu"] /\ m["cpu"] >= cfg.threshold["cpu"]
\* the disk check without its monitor flag
BreachDiskUnguarded(m) == m["disk"] >= cfg.threshold["disk"]
BreachDisk(m) == cfg.monitor["disk"] /\ m["disk"] >= cfg.threshold["disk"]
BreachSwap(m) ==
  cfg.monitor["swap"] /\ m["swap"] >= cfg.threshold["swap"] /\ m["swap"] > 0
BreachLoad(m) == cfg.monitor["load"] /\ m["load"] >= cfg.threshold["load"]
\* the network check with both rates required to reach the threshold
BreachNetworkBoth(m) ==
  /\ cfg.monitor["network"]
  /\ (m["rx"] >= cfg.threshold["network"] /\ m["tx"] >= cfg.threshold["network"])
BreachNetwork(m) ==
  /\ cfg.monitor["network"]
  /\ (m["rx"] >= cfg.threshold["network"] \/ m["tx"] >= cfg.threshold["network"])

Breach(k, m) ==
  CASE k = "ram" -> BreachRam(m)
    [] k = "cpu" -> BreachCpu(m)
    [] k = "disk" -> BreachDisk(m)
    [] k = "swap" -> BreachSwap(m)
    [] k = "load" -> BreachLoad(m)
    [] k = "network" -> BreachNetwork(m)

\* ------------------------------------------------------- OS capabilities
\* the OS capabilities the readers of a tick invoke (a disabled reader returns 0
\* before it invokes any)
readerProbes ==
  {"mem"} \cup
  (IF cfg.monitor["cpu"] THEN {"currentLoad"} ELSE {}) \cup
  (IF cfg.monitor["disk"] THEN {"fsSize"} ELSE {}) \cup
  (IF cfg.monitor["load"] THEN {"loadavg"} ELSE {}) \cup
  (IF cfg.monitor["network"] THEN {"networkStats"} ELSE {})

\* getSystemInfo: si.osInfo, si.mem, si.cpu, si.currentLoad, si.fsSize
getSystemInfo == {"osInfo", "mem", "cpu", "currentLoad", "fsSize"}

\* formatAlert: getTopProcesses('RAM') and getTopProcesses('Disk'), which runs du
formatAlert == IF cfg.includeTopProcesses THEN {"processes", "du"} ELSE {}

\* ------------------------------------------------------------ rate limiter
\* the cooldown without its factor of ten
alertIntervalOneTick == cfg.checkInterval
alertInterval == cfg.checkInterval * cooldownFactor

\* the rate limiter with `<=` for `<`
GatePassesStrict(currentTime, last) == ~((currentTime - last) <= alertInterval)

\* a rate limiter that lets a kind through only after an alert of it was recorded
GatePassesAfterAnAlert(currentTime, last) ==
  last # 0 /\ ~((currentTime - last) < alertInterval)

\* the negation of `timeSinceLastAlert < alertInterval`
GatePasses(currentTime, last) == ~((currentTime - last) < alertInterval)

\* --------------------------------------------------------------- Init
\* the configurations with the optional monitors of `on` switched on, one
\* threshold th for every kind, and the database and Prometheus integrations both
\* on or both off
Configs(intervals, monitorSets, thresholds, integrations) ==
  { [checkInterval |-> ci, monitor |-> [k \in OptKinds |-> k \in on],
     threshold |-> [k \in Kinds |-> th],
     database |-> d, db |-> d, dbType |-> "sqlite", prometheus |-> d,
     includeTopProcesses |-> TRUE, undefinedKey |-> "none"] :
      ci \in intervals, on \in monitorSets, th \in thresholds, d \in integrations }

\* RAM alone at a short and at the default interval; RAM and one optional monitor
\* at the default interval; RAM, swap and load with threshold 0, no database and
\* no process lists in the alert message; RAM alone with the key cpu.monitor
\* missing from the configuration, so that config.get('cpu.monitor') throws; RAM
\* alone at an interval that does not divide 60; RAM alone with the database on
\* in the configuration and setupDatabase() returning null; RAM alone with the
\* database on and a backend other than sqlite; RAM alone at an interval of 4
\* seconds, which a dispatch on its third attempt outlasts
AllConfigs ==
  Configs({5, 60}, {{}}, Values, BOOLEAN) \cup
  Configs({60}, {{"cpu"}, {"disk"}, {"swap"}, {"load"}, {"network"}}, Values, BOOLEAN) \cup
  {[c EXCEPT !.includeTopProcesses = FALSE] :
      c \in Configs({60}, {{"swap", "load"}}, {0}, {FALSE})} \cup
  {[c EXCEPT !.undefinedKey = "cpu.monitor"] : c \in Configs({5}, {{}}, {0}, {FALSE})} \cup
  Configs({45}, {{}}, {0}, {FALSE}) \cup
  {[c EXCEPT !.db = FALSE] : c \in Configs({60}, {{}}, {0}, {TRUE})} \cup
  {[c EXCEPT !.dbType = ty] :
      c \in Configs({60}, {{}}, {0}, {TRUE}), ty \in Backends \ {"sqlite"}} \cup
  Configs({4}, {{}}, {0}, {FALSE})

\* the configurations in which the Telegram API is also taken to be unreachable
\* when the process starts, so that the self-test fails
StartFailureConfigs == Configs({60}, {{}}, {0}, BOOLEAN)

\* the configurations in which db.storeMetrics, the gauges and the write of the
\* status file are also taken to fail at will
SinkFaultConfigs == Configs({60}, {{"cpu"}}, {0}, BOOLEAN)

\* the configurations in which the RAM usage of the host is also taken to change
\* between the reads of a tick
DriftConfigs == Configs({60}, {{}}, {0}, {TRUE})

\* a configuration with the environment the process runs in
Scenarios ==
  {<<c, [reachableAtStart |-> TRUE, sinkFaults |-> FALSE, readingsDrift |-> FALSE]>> : c \in AllConfigs} \cup
  {<<c, [reachableAtStart |-> FALSE, sinkFaults |-> FALSE, readingsDrift |-> FALSE]>> : c \in StartFailureConfigs} \cup
  {<<c, [reachableAtStart |-> TRUE, sinkFaults |-> TRUE, readingsDrift |-> FALSE]>> : c \in SinkFaultConfigs} \cup
  {<<c, [reachableAtStart |-> TRUE, sinkFaults |-> FALSE, readingsDrift |-> TRUE]>> : c \in DriftConfigs}

InitWith(S) ==
  /\ \E sc \in S : cfg = sc[1] /\ env = sc[2]
  /\ now = Epoch
  /\ sched = "testing"
  /\ lastFire = Epoch
  /\ lastAlertTimes = [k \in Kinds |-> 0]
  /\ ticks = [s \in Slots |-> IdleTick]
  /\ lastSuccessAt = [k \in Kinds |-> 0]
  /\ lastD = [k \in Kinds |-> NoDispatch]
  /\ alertCounters = [k \in Kinds |-> 0]

\* nothing read, stored, exported or logged yet
SideIdle ==
  /\ reader = [pc |-> "none"]
  /\ metricsTable = <<>>
  /\ readBack = <<>>
  /\ gauges = [g \in MetricKeys |-> 0]
  /\ statusFile = <<>>
  /\ botToken = <<>>
  /\ logLines = <<>>

Init == InitWith(Scenarios) /\ SideIdle

\* ------------------------------------------------------------- scheduler
\* a failed self-test that ends runMonitoring before cron.schedule
SelfTestOrGiveUp ==
  /\ sched = "testing"
  /\ sched' = IF env.reachableAtStart THEN "running" ELSE "stopped"
  /\ lastFire' = now
  /\ UNCHANGED <<side, alertCounters, cfg, env, now, lastAlertTimes, ticks, lastSuccessAt, lastD>>

\* runMonitoring: await testTelegramConnection(), whose result (true, or false
\* when bot.sendMessage rejects) is dropped, then cron.schedule(...)
SelfTestDone ==
  /\ sched = "testing"
  /\ sched' = "running"
  /\ lastFire' = now
  /\ UNCHANGED <<side, alertCounters, cfg, env, now, lastAlertTimes, ticks, lastSuccessAt, lastD>>

\* the cron callback starts; it does not wait for an earlier callback
CronFire ==
  /\ CronDue
  /\ CanFire
  /\ LET s == Min(FreeSlots) IN
       ticks' = [ticks EXCEPT ![s] = [IdleTick EXCEPT !.pc = "sample"]]
  /\ lastFire' = now
  /\ UNCHANGED <<side, alertCounters, cfg, env, now, sched, lastAlertTimes, lastSuccessAt, lastD>>

\* the tick waits for a setTimeout that has not expired
Waiting(t) == t.pc \in {"netwait", "backoff"} /\ now < t.call.timer

InFlight == {s \in Slots : ticks[s].pc # "idle"}

\* the next second at which the cron pattern matches
NextMatch ==
  LET sec == now % 60
      N == cfg.checkInterval IN
    IF (sec - (sec % N)) + N < 60 THEN (now - (sec % N)) + N ELSE (now - sec) + 60

\* the seconds at which something can happen next
Events ==
  {ticks[s].call.timer : s \in InFlight} \cup
  (IF NextMatch <= Horizon THEN {NextMatch} ELSE {})

\* the clock moves to the next timer expiry or cron match: nothing runs in between
Advance ==
  /\ sched = "running"
  /\ ~(CronDue /\ CanFire)
  /\ \A s \in InFlight : Waiting(ticks[s])
  /\ Events # {}
  /\ now' = Min(Events)
  /\ lastFire' = IF CronDue THEN now ELSE lastFire
  /\ UNCHANGED <<side, alertCounters, cfg, env, sched, lastAlertTimes, ticks, lastSuccessAt, lastD>>

\* ------------------------------------------------------------------ tick
\* the readings a tick asks the OS for: a disabled reader returns before it does
Sampled == {k \in ScalarKeys : k = "ram" \/ cfg.monitor[k]}

\* the readers followed at once by the threshold checks
SampleThenChecks(s) ==
  /\ ticks[s].pc = "sample"
  /\ IF cfg.undefinedKey # "none"
       THEN ticks' = [ticks EXCEPT ![s] =
              [@ EXCEPT !.pc = "thrown", !.probes = {"mem"}]]
       ELSE \E os \in [Sampled -> Values] :
         ticks' = [ticks EXCEPT ![s] =
           [@ EXCEPT !.metrics = [m \in MetricKeys |->
                        CASE m = "ram" -> checkRamUsage(os)
                          [] m = "cpu" -> checkCpuUsage(os)
                          [] m = "disk" -> checkDiskUsage(os)
                          [] m = "swap" -> checkSwapUsage(os)
                          [] m = "load" -> checkLoadAverage(os)
                          [] OTHER -> 0],
                     !.probes = readerProbes,
                     !.pc = IF cfg.monitor["network"] THEN "netwait" ELSE "check",
                     !.call.timer = IF cfg.monitor["network"] THEN now + sampleDelay ELSE 0]]
  /\ UNCHANGED <<side, alertCounters, cfg, env, now, sched, lastFire, lastAlertTimes,
                 lastSuccessAt, lastD>>

\* metrics = { ram: await checkRamUsage(), ..., network: await checkNetworkUsage() }
\* up to the first network sample; checkCpuUsage throws, after the RAM reader has
\* run, when the key cpu.monitor is not defined
Sample(s) ==
  /\ ticks[s].pc = "sample"
  /\ IF cfg.undefinedKey # "none"
       THEN ticks' = [ticks EXCEPT ![s] =
              [@ EXCEPT !.pc = "thrown", !.probes = {"mem"}]]
       ELSE \E os \in [Sampled -> Values] :
         ticks' = [ticks EXCEPT ![s] =
           [@ EXCEPT !.metrics = [m \in MetricKeys |->
                        CASE m = "ram" -> checkRamUsage(os)
                          [] m = "cpu" -> checkCpuUsage(os)
                          [] m = "disk" -> checkDiskUsage(os)
                          [] m = "swap" -> checkSwapUsage(os)
                          [] m = "load" -> checkLoadAverage(os)
                          [] OTHER -> 0],
                     !.probes = readerProbes,
                     !.pc = IF cfg.monitor["network"] THEN "netwait" ELSE "sinks",
                     !.call.timer = IF cfg.monitor["network"] THEN now + sampleDelay ELSE 0]]
  /\ UNCHANGED <<side, alertCounters, cfg, env, now, sched, lastFire, lastAlertTimes,
                 lastSuccessAt, lastD>>

\* the second network sample, one second after the first
NetSample(s) ==
  /\ ticks[s].pc = "netwait"
  /\ ticks[s].call.timer <= now
  /\ \E os \in [{"rx", "tx"} -> Values] :
       ticks' = [ticks EXCEPT ![s] =
         [@ EXCEPT !.metrics = [@ EXCEPT !["rx"] = checkNetworkUsage(os)[1],
                                         !["tx"] = checkNetworkUsage(os)[2]],
                   !.pc = "sinks", !.call.timer = 0]]
  /\ UNCHANGED <<side, alertCounters, cfg, env, now, sched, lastFire, lastAlertTimes,
                 lastSuccessAt, lastD>>

\* what a sink action that is called can come to: each catches its own error
SinkOutcomes(called) ==
  IF ~called THEN {"skipped"}
  ELSE IF env.sinkFaults THEN {"done", "failed"} ELSE {"done"}

\* what storeMetrics comes to: skipped without a handle; `await db.storeMetrics(...)`
\* throws a TypeError into the catch of storeMetrics when db has no such method
StoreMetricsOutcomes ==
  IF ~(cfg.database /\ HasDb) THEN {"skipped"}
  ELSE IF ~HandleHasMethods THEN {"failed"}
  ELSE SinkOutcomes(TRUE)

\* whether `await db.storeAlert(...)` stores the record: not when db has no such
\* method (a TypeError into the catch of storeAlert), and else unless the database fails
StoreAlertOutcomes ==
  IF ~HandleHasMethods THEN {FALSE}
  ELSE IF env.sinkFaults THEN BOOLEAN ELSE {TRUE}

\* the sink actions with an error that leaves the later ones out
SinksStopAtFailure(s) ==
  /\ ticks[s].pc = "sinks"
  /\ \E om \in StoreMetricsOutcomes :
     \E og \in SinkOutcomes(cfg.prometheus) :
     \E of \in SinkOutcomes(TRUE) :
       ticks' = [ticks EXCEPT ![s] =
         [@ EXCEPT !.pc = "check", !.idx = 1, !.probes = @ \cup getSystemInfo,
                   !.sinks = [x \in SinkNames |->
                     CASE x = "metrics" -> om
                       [] x = "gauges" -> IF om = "failed" THEN "skipped" ELSE og
                       [] x = "status" ->
                            IF om = "failed" \/ og = "failed" THEN "skipped" ELSE of]]]
  /\ UNCHANGED <<side, alertCounters, cfg, env, now, sched, lastFire, lastAlertTimes,
                 lastSuccessAt, lastD>>

\* the sink actions with a database error that reaches the catch of the callback
SinksAbortOnDbFailure(s) ==
  /\ ticks[s].pc = "sinks"
  /\ \E om \in StoreMetricsOutcomes :
     \E og \in SinkOutcomes(cfg.prometheus) :
     \E of \in SinkOutcomes(TRUE) :
       ticks' = [ticks EXCEPT ![s] =
         IF om = "failed"
           THEN [@ EXCEPT !.pc = "thrown", !.probes = @ \cup getSystemInfo,
                          !.sinks = [@ EXCEPT !["metrics"] = om]]
           ELSE [@ EXCEPT !.pc = "check", !.idx = 1, !.probes = @ \cup getSystemInfo,
                          !.sinks = [x \in SinkNames |->
                            CASE x = "metrics" -> om
                              [] x = "gauges" -> og
                              [] x = "status" -> of]]]
  /\ UNCHANGED <<side, alertCounters, cfg, env, now, sched, lastFire, lastAlertTimes,
                 lastSuccessAt, lastD>>

\* getSystemInfo(), then `if (database.enabled) await storeMetrics(...)`,
\* `if (prometheus.enabled) updatePrometheusMetrics(...)`, updateStatusFile(...)
Sinks(s) ==
  /\ ticks[s].pc = "sinks"
  /\ \E om \in StoreMetricsOutcomes :
     \E og \in SinkOutcomes(cfg.prometheus) :
     \E of \in SinkOutcomes(TRUE) :
       ticks' = [ticks EXCEPT ![s] =
         [@ EXCEPT !.pc = "check", !.idx = 1, !.probes = @ \cup getSystemInfo,
                   !.sinks = [x \in SinkNames |->
                     CASE x = "metrics" -> om
                       [] x = "gauges" -> og
                       [] x = "status" -> of]]]
  /\ UNCHANGED <<side, alertCounters, cfg, env, now, sched, lastFire, lastAlertTimes,
                 lastSuccessAt, lastD>>

\* the positions, from i on, of the kinds whose threshold check of the tick holds
BreachesFrom(i, m) == {j \in i..Len(KindOrder) : Breach(KindOrder[j], m)}

\* the threshold checks `if (<breach>) { await sendTelegramAlert(...) }`, in the
\* order of the code from position idx on, up to the first one that holds (the
\* call of sendTelegramAlert); the callback ends when none is left
CheckKind(s) ==
  /\ ticks[s].pc = "check"
  /\ LET t == ticks[s]
         B == BreachesFrom(t.idx, t.metrics) IN
       ticks' = [ticks EXCEPT ![s] =
         IF B # {}
           THEN [t EXCEPT !.pc = "gate", !.idx = Min(B),
                          !.started = @ \cup {KindOrder[Min(B)]}]
           ELSE IdleTick]
  /\ UNCHANGED <<side, alertCounters, cfg, env, now, sched, lastFire, lastAlertTimes, lastSuccessAt, lastD>>

\* the dispatch of slot s returns r to the tick
Return(t, r) == [t EXCEPT !.pc = "returned", !.call.result = r, !.call.timer = 0]

InCall(t) == t.pc \in {"format", "send", "backoff", "store", "returned"}

\* what the dispatch of kind k in slot s does (att: it calls bot.sendMessage,
\* rel: it returns) as seen by the dispatch that followed it
Seen(t2, s, k, att, rel) ==
  IF InCall(t2) /\ KindOf(t2) = k /\ t2.call.prev.owner = s
    THEN [t2 EXCEPT !.call.prev.attempted = @ \/ att,
                    !.call.prev.owner = IF rel THEN 0 ELSE @]
    ELSE t2

Step(s, t, att, rel) ==
  /\ ticks' = [x \in Slots |->
       IF x = s THEN t ELSE Seen(ticks[x], s, KindOf(t), att, rel)]
  /\ lastD' = [lastD EXCEPT ![KindOf(t)] =
       IF @.owner = s
         THEN [@ EXCEPT !.attempted = @ \/ att, !.owner = IF rel THEN 0 ELSE @]
         ELSE @]

\* the entry of sendTelegramAlert without the `return false` of the rate limiter
GateNoReturn(s) ==
  /\ ticks[s].pc = "gate"
  /\ LET t == ticks[s]
         k == KindOf(t)
         c == [NoCall EXCEPT !.currentTime = now, !.seenLast = lastAlertTimes[k],
                 !.passed = GatePasses(now, lastAlertTimes[k]),
                 !.prev = [lastD[k] EXCEPT !.recorded =
                             lastD[k].exists /\ lastAlertTimes[k] = lastD[k].start]] IN
       /\ ticks' = [ticks EXCEPT ![s] = [t EXCEPT !.pc = "format", !.call = c]]
       /\ lastD' = [lastD EXCEPT ![k] =
            [NoDispatch EXCEPT !.exists = TRUE, !.start = now, !.owner = s]]
  /\ UNCHANGED <<side, alertCounters, cfg, env, now, sched, lastFire, lastAlertTimes, lastSuccessAt>>

\* an entry that collects the host identity before it asks the rate limiter
GateAfterHostIdentity(s) ==
  /\ ticks[s].pc = "gate"
  /\ LET t == [ticks[s] EXCEPT !.probes = @ \cup getSystemInfo]
         k == KindOf(t)
         c == [NoCall EXCEPT !.currentTime = now, !.seenLast = lastAlertTimes[k],
                 !.hostReads = 1,
                 !.prev = [lastD[k] EXCEPT !.recorded =
                             lastD[k].exists /\ lastAlertTimes[k] = lastD[k].start]]
         pass == GatePasses(now, lastAlertTimes[k]) IN
       /\ ticks' = [ticks EXCEPT ![s] =
            IF pass
              THEN [t EXCEPT !.pc = "format", !.call = [c EXCEPT !.passed = TRUE]]
              ELSE Return([t EXCEPT !.call = c], "false")]
       /\ lastD' = [lastD EXCEPT ![k] =
            [NoDispatch EXCEPT !.exists = TRUE, !.start = now,
                               !.owner = IF pass THEN s ELSE 0]]
  /\ UNCHANGED <<side, alertCounters, cfg, env, now, sched, lastFire, lastAlertTimes, lastSuccessAt>>

\* sendTelegramAlert, entry: currentTime and the rate limiter
Gate(s) ==
  /\ ticks[s].pc = "gate"
  /\ LET t == ticks[s]
         k == KindOf(t)
         c == [NoCall EXCEPT !.currentTime = now, !.seenLast = lastAlertTimes[k],
                 !.prev = [lastD[k] EXCEPT !.recorded =
                             lastD[k].exists /\ lastAlertTimes[k] = lastD[k].start]]
         pass == GatePasses(now, lastAlertTimes[k]) IN
       /\ ticks' = [ticks EXCEPT ![s] =
            IF pass
              THEN [t EXCEPT !.pc = "format", !.call = [c EXCEPT !.passed = TRUE]]
              ELSE Return([t EXCEPT !.call = c], "false")]
       /\ lastD' = [lastD EXCEPT ![k] =
            [NoDispatch EXCEPT !.exists = TRUE, !.start = now,
                               !.owner = IF pass THEN s ELSE 0]]
  /\ UNCHANGED <<side, alertCounters, cfg, env, now, sched, lastFire, lastAlertTimes, lastSuccessAt>>

\* the step of slot s that leaves its tick as t
Do(s, t) == Step(s, t, t.pc = "send", t.pc = "returned")

\* the loop condition without `!success`
LoopContinuesAfterSuccess(c) == c.retry < maxRetries

\* the loop condition with `<=` for `<`
LoopContinuesOnceMore(c) == c.retry <= maxRetries /\ ~c.success

\* while (retry < maxRetries && !success)
LoopContinues(c) == c.retry < maxRetries /\ ~c.success

\* what follows the loop without the storeAlert of the failed alert
LoopTailNoFailureRecord(t) ==
  IF LoopContinues(t.call)
    THEN [t EXCEPT !.pc = "send", !.call.attempts = @ + 1]
    ELSE IF ~t.call.success
      THEN Return(t, "false")
      ELSE Return(t, "true")

\* the loop condition after an iteration, and what follows the loop:
\* `if (!success) { ...; storeAlert(..., false); return false; } return true;`
LoopTail(t) ==
  IF LoopContinues(t.call)
    THEN [t EXCEPT !.pc = "send", !.call.attempts = @ + 1]
    ELSE IF ~t.call.success
      THEN IF HasDb THEN [t EXCEPT !.pc = "store"] ELSE Return(t, "false")
      ELSE Return(t, "true")

\* systemInfo.ramUsage of the getSystemInfo() of a dispatch, a si.mem() read of
\* its own: the reading of the tick while the host does not change
ramUsageAtDispatch(t) == IF env.readingsDrift THEN Values ELSE {t.metrics["ram"]}

\* the message of formatAlert(alertType, usageValue, systemInfo) as far as it shows
\* a resource: `RAM Usage: ${systemInfo.ramUsage}%` (usageValue is not used)
alertMessage(systemInfo) == <<systemInfo.ramUsage>>

\* a formatAlert whose exception leaves sendTelegramAlert and reaches the catch
\* of the cron callback
FormatThrowEscapes(s) ==
  /\ ticks[s].pc = "format"
  /\ LET t == ticks[s] IN
       \/ \E r \in ramUsageAtDispatch(t) :
            Do(s, LoopTail([t EXCEPT !.probes = @ \cup getSystemInfo \cup formatAlert,
                                     !.call.hostReads = @ + 1,
                                     !.call.message = alertMessage([ramUsage |-> r])]))
       \/ Do(s, [t EXCEPT !.probes = @ \cup getSystemInfo,
                           !.call.hostReads = @ + 1, !.pc = "thrown"])
  /\ UNCHANGED <<side, alertCounters, cfg, env, now, sched, lastFire, lastAlertTimes, lastSuccessAt>>

\* getSystemInfo() and formatAlert(), then the loop is entered (retry = 0, success =
\* false) and bot.sendMessage is called; or formatAlert throws and the outer
\* catch returns false
Format(s) ==
  /\ ticks[s].pc = "format"
  /\ LET t == ticks[s] IN
       \/ \E r \in ramUsageAtDispatch(t) :
            Do(s, LoopTail([t EXCEPT !.probes = @ \cup getSystemInfo \cup formatAlert,
                                     !.call.hostReads = @ + 1,
                                     !.call.message = alertMessage([ramUsage |-> r])]))
       \/ Do(s, Return([t EXCEPT !.probes = @ \cup getSystemInfo,
                                  !.call.hostReads = @ + 1], "false"))
  /\ UNCHANGED <<side, alertCounters, cfg, env, now, sched, lastFire, lastAlertTimes, lastSuccessAt>>

\* a delivery that records the time of the delivery, not of the entry
SendOkRecordsDeliveryTime(s) ==
  /\ ticks[s].pc = "send"
  /\ LET t == ticks[s]
         k == KindOf(t)
         d == [t EXCEPT !.call.success = TRUE, !.call.wrote = TRUE] IN
       /\ lastAlertTimes' = [lastAlertTimes EXCEPT ![k] = now]
       /\ lastSuccessAt' = [lastSuccessAt EXCEPT ![k] = now]
       /\ alertCounters' = IF cfg.prometheus
                             THEN [alertCounters EXCEPT ![k] = @ + 1]
                             ELSE alertCounters
       /\ Do(s, IF HasDb THEN [d EXCEPT !.pc = "store"] ELSE LoopTail(d))
  /\ UNCHANGED <<side, cfg, env, now, sched, lastFire>>

\* bot.sendMessage resolved: success = true, lastAlertTimes[alertKey] = currentTime,
\* prometheus.<kind>Alerts.inc() if Prometheus is on, then storeAlert(..., true)
\* if the database is on
SendOk(s) ==
  /\ ticks[s].pc = "send"
  /\ LET t == ticks[s]
         k == KindOf(t)
         d == [t EXCEPT !.call.success = TRUE, !.call.wrote = TRUE] IN
       /\ lastAlertTimes' = [lastAlertTimes EXCEPT ![k] = t.call.currentTime]
       /\ lastSuccessAt' = [lastSuccessAt EXCEPT ![k] = now]
       /\ alertCounters' = IF cfg.prometheus
                             THEN [alertCounters EXCEPT ![k] = @ + 1]
                             ELSE alertCounters
       /\ Do(s, IF HasDb THEN [d EXCEPT !.pc = "store"] ELSE LoopTail(d))
  /\ UNCHANGED <<side, cfg, env, now, sched, lastFire>>

\* a rejected bot.sendMessage that records the alert time all the same
SendFailRecording(s) ==
  /\ ticks[s].pc = "send"
  /\ ticks' = [ticks EXCEPT ![s] =
       [@ EXCEPT !.call.retry = @ + 1, !.pc = "backoff",
                 !.call.timer = now + retryDelay]]
  /\ lastAlertTimes' = [lastAlertTimes EXCEPT ![KindOf(ticks[s])] =
                          ticks[s].call.currentTime]
  /\ UNCHANGED <<side, alertCounters, cfg, env, now, sched, lastFire, lastSuccessAt, lastD>>

\* a rejected bot.sendMessage that counts as a sent alert
SendFailCounting(s) ==
  /\ ticks[s].pc = "send"
  /\ ticks' = [ticks EXCEPT ![s] =
       [@ EXCEPT !.call.retry = @ + 1, !.pc = "backoff",
                 !.call.timer = now + retryDelay]]
  /\ alertCounters' = IF cfg.prometheus
                        THEN [alertCounters EXCEPT ![KindOf(ticks[s])] = @ + 1]
                        ELSE alertCounters
  /\ UNCHANGED <<side, cfg, env, now, sched, lastFire, lastAlertTimes,
                 lastSuccessAt, lastD>>

\* bot.sendMessage rejected: retry++, then wait 2 seconds
SendFail(s) ==
  /\ ticks[s].pc = "send"
  /\ ticks' = [ticks EXCEPT ![s] =
       [@ EXCEPT !.call.retry = @ + 1, !.pc = "backoff",
                 !.call.timer = now + retryDelay]]
  /\ UNCHANGED <<side, alertCounters, cfg, env, now, sched, lastFire, lastAlertTimes, lastSuccessAt, lastD>>

\* the wait is over: back to the loop condition
Backoff(s) ==
  /\ ticks[s].pc = "backoff"
  /\ ticks[s].call.timer <= now
  /\ Do(s, LoopTail([ticks[s] EXCEPT !.call.timer = 0]))
  /\ UNCHANGED <<side, alertCounters, cfg, env, now, sched, lastFire, lastAlertTimes, lastSuccessAt>>

\* the second argument of sendTelegramAlert: a text made of the reading of the
\* kind (`${metrics.ram}%`, ...), for the network of both rates
usageValue(k, m) == IF k = "network" THEN <<m["rx"], m["tx"]>> ELSE <<m[k]>>

\* a storeAlert whose database error is not caught: it reaches the catch of the
\* retry loop after a delivery (retry++, the wait), the outer catch after the loop
StoreAlertRethrows(s) ==
  /\ ticks[s].pc = "store"
  /\ \E dbok \in StoreAlertOutcomes :
       LET t == [ticks[s] EXCEPT !.probes = @ \cup getSystemInfo,
                   !.call.hostReads = @ + 1,
                   !.call.recs =
                     Append(@, [kind |-> KindOf(ticks[s]),
                                value |-> usageValue(KindOf(ticks[s]), ticks[s].metrics),
                                message |-> ticks[s].call.message,
                                sentSuccessfully |-> ticks[s].call.success,
                                stored |-> dbok])] IN
         Do(s, IF dbok
                 THEN IF t.call.success THEN LoopTail(t) ELSE Return(t, "false")
                 ELSE IF t.call.success
                   THEN [t EXCEPT !.call.retry = @ + 1, !.pc = "backoff",
                                  !.call.timer = now + retryDelay]
                   ELSE Return(t, "false"))
  /\ UNCHANGED <<side, alertCounters, cfg, env, now, sched, lastFire,
                 lastAlertTimes, lastSuccessAt>>

\* storeAlert(alertType, usageValue, message, success): the record is handed to
\* db.storeAlert, which may fail; storeAlert catches. After a success the loop
\* condition follows, after the loop `return false`.
StoreAlert(s) ==
  /\ ticks[s].pc = "store"
  /\ \E dbok \in StoreAlertOutcomes :
       LET t == [ticks[s] EXCEPT !.probes = @ \cup getSystemInfo,
                   !.call.hostReads = @ + 1,
                   !.call.recs =
                     Append(@, [kind |-> KindOf(ticks[s]),
                                value |-> usageValue(KindOf(ticks[s]), ticks[s].metrics),
                                message |-> ticks[s].call.message,
                                sentSuccessfully |-> ticks[s].call.success,
                                stored |-> dbok])] IN
         Do(s, IF t.call.success THEN LoopTail(t) ELSE Return(t, "false"))
  /\ UNCHANGED <<side, alertCounters, cfg, env, now, sched, lastFire, lastAlertTimes, lastSuccessAt>>

\* an exception of the tick that ends the process
CaughtStops(s) ==
  /\ ticks[s].pc = "thrown"
  /\ ticks' = [ticks EXCEPT ![s] = IdleTick]
  /\ sched' = "stopped"
  /\ UNCHANGED <<side, alertCounters, cfg, env, now, lastFire, lastAlertTimes, lastSuccessAt, lastD>>

\* `catch (error) { logger.error(...) }` of the cron callback: the callback ends
Caught(s) ==
  /\ ticks[s].pc = "thrown"
  /\ ticks' = [ticks EXCEPT ![s] = IdleTick]
  /\ UNCHANGED <<side, alertCounters, cfg, env, now, sched, lastFire, lastAlertTimes, lastSuccessAt, lastD>>

\* the tick resumed at the first threshold check after a dispatch
ResumeFromStart(s) ==
  /\ ticks[s].pc = "returned"
  /\ ticks' = [ticks EXCEPT ![s] = [@ EXCEPT !.pc = "check", !.idx = 1, !.call = NoCall]]
  /\ UNCHANGED <<side, alertCounters, cfg, env, now, sched, lastFire, lastAlertTimes, lastSuccessAt, lastD>>

\* a tick that gives up its remaining threshold checks after a dispatch that
\* returned false
ResumeUnlessFalse(s) ==
  /\ ticks[s].pc = "returned"
  /\ ticks' = [ticks EXCEPT ![s] =
       IF @.idx < Len(KindOrder) /\ @.call.result = "true"
         THEN [@ EXCEPT !.pc = "check", !.idx = @ + 1, !.call = NoCall]
         ELSE IdleTick]
  /\ UNCHANGED <<side, alertCounters, cfg, env, now, sched, lastFire, lastAlertTimes, lastSuccessAt, lastD>>

\* `await sendTelegramAlert(...)` resumes the tick at the next threshold check
Resume(s) ==
  /\ ticks[s].pc = "returned"
  /\ ticks' = [ticks EXCEPT ![s] =
       IF @.idx < Len(KindOrder)
         THEN [@ EXCEPT !.pc = "check", !.idx = @ + 1, !.call = NoCall]
         ELSE IdleTick]
  /\ UNCHANGED <<side, alertCounters, cfg, env, now, sched, lastFire, lastAlertTimes, lastSuccessAt, lastD>>

Next ==
  \/ SelfTestDone
  \/ CronFire
  \/ Advance
  \/ \E s \in Slots : Sample(s)
  \/ \E s \in Slots : NetSample(s)
  \/ \E s \in Slots : Sinks(s)
  \/ \E s \in Slots : CheckKind(s)
  \/ \E s \in Slots : Gate(s)
  \/ \E s \in Slots : Format(s)
  \/ \E s \in Slots : SendOk(s)
  \/ \E s \in Slots : SendFail(s)
  \/ \E s \in Slots : Backoff(s)
  \/ \E s \in Slots : StoreAlert(s)
  \/ \E s \in Slots : Resume(s)
  \/ \E s \in Slots : Caught(s)

Spec == Init /\ [][Next]_vars

\* ============================================================ the readers
\* One call of a reader, with what the operating system hands to it.  Numbers
\* that are not whole (a load, a rate) are fractions <<numerator, denominator>>
\* with a positive denominator, in lowest terms.
RECURSIVE Gcd(_, _)
Gcd(a, b) == IF b = 0 THEN a ELSE Gcd(b, a % b)

Abs(x) == IF x < 0 THEN -x ELSE x

Norm(q) ==
  LET g == Gcd(Abs(q[1]), q[2]) IN <<q[1] \div g, q[2] \div g>>

\* q / n for a whole n > 0
Div(q, n) == Norm(<<q[1], q[2] * n>>)

\* Math.round: the nearest whole number, halves upwards
Round(q) == (2 * q[1] + q[2]) \div (2 * q[2])

\* what a capability of the OS can answer: an error, or rows (an empty array
\* when it knows no such interface or file system)
Failed == [ok |-> FALSE, rows |-> <<>>]
Answer(rows) == [ok |-> TRUE, rows |-> rows]

\* si.mem(): used, total, swapused, swaptotal
MemInfos ==
  {Failed} \cup
  {Answer(<<[used |-> u, total |-> 8, swapused |-> su, swaptotal |-> st]>>) :
     u \in {0, 3, 8}, su \in {0, 1}, st \in {0, 2}}

\* si.currentLoad(): currentLoad, a percentage in tenths
CurrentLoads == {Failed} \cup {Answer(<<[currentLoad |-> <<c, 10>>]>>) : c \in {0, 4, 5, 1000}}

\* si.fsSize(): the file systems with their use, a percentage in tenths; the
\* configured disk.path is "/"
FsSizes ==
  {Failed, Answer(<<>>)} \cup
  {Answer(<<[mount |-> m, use |-> <<u, 10>>]>>) : m \in {"/", "/boot"}, u \in {0, 505, 1000}} \cup
  {Answer(<<[mount |-> "/boot", use |-> <<10, 10>>], [mount |-> "/", use |-> <<u, 10>>]>>) :
     u \in {0, 505}}

\* os.loadavg()[0] in hundredths and os.cpus().length
LoadInfos ==
  {Failed} \cup
  {Answer(<<[load |-> <<l, 100>>, cpuCount |-> n]>>) : l \in {0, 50, 150, 401}, n \in {1, 4}}

\* the byte counters of an interface
ByteSamples == {0, 1, 131072, 1000000, 2048000}

\* si.networkStats(networkInterface)
NetworkStats ==
  {Failed, Answer(<<>>)} \cup
  {Answer(<<[rx_bytes |-> r, tx_bytes |-> t]>>) : r \in ByteSamples, t \in ByteSamples}

\* checkRamUsage: Math.round((memInfo.used / memInfo.total) * 100), 0 in the catch
RamReading(memInfo) ==
  IF ~memInfo.ok THEN 0
  ELSE Round(<<memInfo.rows[1].used * 100, memInfo.rows[1].total>>)

\* checkCpuUsage
CpuReading(cpuLoad) ==
  IF ~cfg.monitor["cpu"] THEN 0
  ELSE IF ~cpuLoad.ok THEN 0
  ELSE Round(cpuLoad.rows[1].currentLoad)

\* checkDiskUsage: fsSize.find(fs => fs.mount === diskPath) || fsSize[0]; reading
\* `use` of undefined throws into the catch
DiskReading(fsSize) ==
  IF ~cfg.monitor["disk"] THEN 0
  ELSE IF ~fsSize.ok THEN 0
  ELSE LET found == {j \in 1..Len(fsSize.rows) : fsSize.rows[j].mount = "/"} IN
         IF found # {} THEN Round(fsSize.rows[Min(found)].use)
         ELSE IF fsSize.rows # <<>> THEN Round(fsSize.rows[1].use)
         ELSE 0

\* checkSwapUsage
SwapReading(memInfo) ==
  IF ~cfg.monitor["swap"] THEN 0
  ELSE IF ~memInfo.ok THEN 0
  ELSE IF memInfo.rows[1].swaptotal = 0 THEN 0
  ELSE Round(<<memInfo.rows[1].swapused * 100, memInfo.rows[1].swaptotal>>)

\* checkLoadAverage: Math.round((load / cpuCount) * 100)
LoadReading(info) ==
  IF ~cfg.monitor["load"] THEN 0
  ELSE IF ~info.ok THEN 0
  ELSE LET l == info.rows[1].load IN
         Round(<<l[1] * 100, l[2] * info.rows[1].cpuCount>>)

\* the rate with the bytes taken for bits
rateOfBytes(first, second) == Div(Div(<<second - first, 1>>, 1024), 1024)

\* ((second - first) * 8) / 1024 / 1024
rate(first, second) == Div(Div(<<(second - first) * 8, 1>>, 1024), 1024)

\* a reader that takes a missing interface entry for counters at 0
NetworkRatesLenient(stats1, stats2) ==
  LET c(st, f) == IF st.rows = <<>> THEN 0 ELSE st.rows[1][f] IN
    IF ~stats1.ok \/ ~stats2.ok THEN <<<<0, 1>>, <<0, 1>>>>
    ELSE <<rate(c(stats1, "rx_bytes"), c(stats2, "rx_bytes")),
           rate(c(stats1, "tx_bytes"), c(stats2, "tx_bytes"))>>

\* checkNetworkUsage after the second sample: [rxRate, txRate], or [0, 0] from
\* the catch (a rejected networkStats, networkStats[0] undefined)
NetworkRates(stats1, stats2) ==
  IF ~stats1.ok \/ ~stats2.ok \/ stats1.rows = <<>> \/ stats2.rows = <<>>
    THEN <<<<0, 1>>, <<0, 1>>>>
    ELSE <<rate(stats1.rows[1].rx_bytes, stats2.rows[1].rx_bytes),
           rate(stats1.rows[1].tx_bytes, stats2.rows[1].tx_bytes)>>

\* the configurations of the readers: every optional monitor off, or all on, with
\* thresholds of 0 and of 5 (the load.threshold of the documented configuration)
ReaderConfigs == Configs({60}, {{}, OptKinds}, {0, 5}, {FALSE})

\* the loop at rest in configuration set C
Parked(C) == InitWith({<<c, [reachableAtStart |-> TRUE, sinkFaults |-> FALSE, readingsDrift |-> FALSE]>> : c \in C})

ReaderInit ==
  /\ Parked(ReaderConfigs)
  /\ \E k \in Kinds : reader = [pc |-> "ready", kind |-> k, first |-> Failed,
                                 second |-> Failed, result |-> <<>>]
  /\ metricsTable = <<>> /\ readBack = <<>>
  /\ gauges = [g \in MetricKeys |-> 0] /\ statusFile = <<>>
  /\ botToken = <<>> /\ logLines = <<>>

notReader == <<loopVars, metricsTable, readBack, gauges, statusFile, botToken, logLines>>

\* one of the five readers of a single value
ReadScalar ==
  /\ reader.pc = "ready"
  /\ reader.kind # "network"
  /\ \E mem \in MemInfos, cpu \in CurrentLoads, fs \in FsSizes, ld \in LoadInfos :
       reader' = [reader EXCEPT !.pc = "done",
         !.first = CASE reader.kind \in {"ram", "swap"} -> mem
                     [] reader.kind = "cpu" -> cpu
                     [] reader.kind = "disk" -> fs
                     [] reader.kind = "load" -> ld,
         !.result =
         CASE reader.kind = "ram" -> <<RamReading(mem)>>
           [] reader.kind = "cpu" -> <<CpuReading(cpu)>>
           [] reader.kind = "disk" -> <<DiskReading(fs)>>
           [] reader.kind = "swap" -> <<SwapReading(mem)>>
           [] reader.kind = "load" -> <<LoadReading(ld)>>]
  /\ UNCHANGED notReader

\* checkNetworkUsage up to the wait: [0, 0] when the monitor is off or the first
\* networkStats is rejected
NetFirstSample ==
  /\ reader.pc = "ready"
  /\ reader.kind = "network"
  /\ IF ~cfg.monitor["network"]
       THEN reader' = [reader EXCEPT !.pc = "done", !.result = <<<<0, 1>>, <<0, 1>>>>]
       ELSE \E st \in NetworkStats :
              reader' = IF st.ok
                THEN [reader EXCEPT !.pc = "waiting", !.first = st]
                ELSE [reader EXCEPT !.pc = "done", !.first = st,
                                    !.result = NetworkRates(st, st)]
  /\ UNCHANGED notReader

\* checkNetworkUsage after the wait
NetSecondSample ==
  /\ reader.pc = "waiting"
  /\ \E st \in NetworkStats :
       reader' = [reader EXCEPT !.pc = "done", !.second = st,
                                !.result = NetworkRates(reader.first, st)]
  /\ UNCHANGED notReader

ReaderNext == ReadScalar \/ NetFirstSample \/ NetSecondSample

ReaderSpec == ReaderInit /\ [][ReaderNext]_vars

\* ============================================================ the database
\* The table `metrics` of setupSqlite with the two operations on it.  A row is
\* its AUTOINCREMENT id, the timestamp storeMetrics gives it (the wall clock cut
\* to the second) and the readings (here the RAM reading stands for the columns
\* that are passed through).
DbInit ==
  /\ Parked(Configs({60}, {{}}, {0}, {TRUE}))
  /\ reader = [pc |-> "none"]
  /\ metricsTable = <<>> /\ readBack = <<>>
  /\ gauges = [g \in MetricKeys |-> 0] /\ statusFile = <<>>
  /\ botToken = <<>> /\ logLines = <<>>

notDb == <<cfg, env, sched, lastFire, lastAlertTimes, ticks, lastSuccessAt, lastD,
           alertCounters, reader, gauges, statusFile, botToken, logLines>>

\* a second passes
DbClock ==
  /\ now < Epoch + MaxRows
  /\ now' = now + 1
  /\ UNCHANGED <<notDb, metricsTable, readBack>>

\* storeMetrics: timestamp = new Date().toISOString() cut to the second, then
\* db.storeMetrics: INSERT INTO metrics (...)
DbStoreMetrics ==
  /\ Len(metricsTable) < MaxRows
  /\ \E v \in Values :
       metricsTable' = Append(metricsTable,
         [id |-> Len(metricsTable) + 1, timestamp |-> now, ram_usage |-> v])
  /\ readBack' = <<>>
  /\ UNCHANGED <<notDb, now>>

\* the rows that ORDER BY timestamp DESC may put first: SQL leaves the order of
\* rows with equal timestamps open
NewestRows(table) ==
  {j \in 1..Len(table) : \A i \in 1..Len(table) : table[i].timestamp <= table[j].timestamp}

\* getRecentMetrics(1): SELECT * FROM metrics ORDER BY timestamp DESC LIMIT 1
DbGetRecentMetrics ==
  /\ metricsTable # <<>>
  /\ \E j \in NewestRows(metricsTable) : readBack' = <<metricsTable[j]>>
  /\ UNCHANGED <<notDb, now, metricsTable>>

DbNext == DbClock \/ DbStoreMetrics \/ DbGetRecentMetrics

DbSpec == DbInit /\ [][DbNext]_vars

\* ======================================================== the sink fan-out
\* The gauges and the status file over successive ticks: each step is the sink
\* part of one tick, on the snapshot of that tick.  Slot 1 keeps the snapshot and
\* the outcomes of the last one.
GaugeOrder == <<"ram", "cpu", "disk", "swap", "load", "rx", "tx">>

\* the snapshots the readers can produce: 0 for a monitor that is off
Snapshots ==
  {m \in [MetricKeys -> Values] :
     /\ \A k \in ScalarKeys \ {"ram"} : ~cfg.monitor[k] => m[k] = 0
     /\ ~cfg.monitor["network"] => (m["rx"] = 0 /\ m["tx"] = 0)}

\* gauges that are set only from readings other than 0
GaugesAfterNonZeroOnly(g, m, n) ==
  [x \in MetricKeys |->
     IF (\E j \in 1..n : GaugeOrder[j] = x) /\ m[x] # 0 THEN m[x] ELSE g[x]]

\* updatePrometheusMetrics after n of its seven set() calls: ramUsage.set(
\* metrics.ram || 0), ..., networkRx.set(metrics.network[0]), networkTx.set(...)
GaugesAfter(g, m, n) ==
  [x \in MetricKeys |-> IF \E j \in 1..n : GaugeOrder[j] = x THEN m[x] ELSE g[x]]

\* a status file with a line for every enabled kind whose reading is above 0
StatusLinesPositiveOnly(m) ==
  LET line(k) ==
        IF k = "ram" \/ (cfg.monitor[k] /\ usageValue(k, m) # <<0>>)
          THEN <<[kind |-> k, value |-> usageValue(k, m)]>>
          ELSE <<>> IN
    line("ram") \o line("cpu") \o line("disk") \o line("swap") \o line("load")
      \o line("network")

\* updateStatusFile: the lines after `Last check`, in the order of the keys of
\* `metrics`
StatusLines(m) ==
  LET line(k) ==
        IF \/ k = "ram"
           \/ k \in {"cpu", "disk", "load", "network"} /\ cfg.monitor[k]
           \/ k = "swap" /\ cfg.monitor[k] /\ m["swap"] > 0
          THEN <<[kind |-> k, value |-> usageValue(k, m)]>>
          ELSE <<>> IN
    line("ram") \o line("cpu") \o line("disk") \o line("swap") \o line("load")
      \o line("network")

\* RAM alone, with swap, with CPU, swap and network, with disk and load, each
\* with Prometheus on or off; with RAM alone the gauges and the status file may
\* also fail at will
SinkScenarios ==
  {<<[c EXCEPT !.prometheus = p], [reachableAtStart |-> TRUE, sinkFaults |-> FALSE, readingsDrift |-> FALSE]>> :
     c \in Configs({60}, {{}, {"swap"}, {"cpu", "swap", "network"}, {"disk", "load"}},
                   {0}, {FALSE}),
     p \in BOOLEAN} \cup
  {<<[c EXCEPT !.prometheus = p], [reachableAtStart |-> TRUE, sinkFaults |-> TRUE, readingsDrift |-> FALSE]>> :
     c \in Configs({60}, {{}}, {0}, {FALSE}), p \in BOOLEAN}

SinkInit ==
  /\ InitWith(SinkScenarios)
  /\ reader = [pc |-> "none"]
  /\ metricsTable = <<>> /\ readBack = <<>>
  /\ gauges = [g \in MetricKeys |-> 0] /\ statusFile = <<>>
  /\ botToken = <<>> /\ logLines = <<>>

notSink == <<cfg, env, now, sched, lastFire, lastAlertTimes, lastSuccessAt, lastD,
             alertCounters, reader, metricsTable, readBack, botToken, logLines>>

\* updatePrometheusMetrics(metrics) and updateStatusFile(metrics) of one tick
SinkFanOut ==
  \E m \in Snapshots :
  \E og \in SinkOutcomes(cfg.prometheus), of \in SinkOutcomes(TRUE) :
  \E n \in 0..(Len(GaugeOrder) - 1) :
    /\ og # "failed" => n = 0
    /\ gauges' = CASE og = "done" -> GaugesAfter(gauges, m, Len(GaugeOrder))
                   [] og = "failed" -> GaugesAfter(gauges, m, n)
                   [] OTHER -> gauges
    /\ statusFile' = IF of = "done" THEN StatusLines(m) ELSE statusFile
    /\ ticks' = [ticks EXCEPT ![1] =
         [IdleTick EXCEPT !.metrics = m,
            !.sinks = [x \in SinkNames |->
              CASE x = "metrics" -> "skipped" [] x = "gauges" -> og [] x = "status" -> of]]]
    /\ UNCHANGED notSink

SinkNext == SinkFanOut

SinkSpec == SinkInit /\ [][SinkNext]_vars

\* ======================================================= the credential hint
\* The two places that log a hint of the bot token: after the third failed
\* attempt of a dispatch and after a failed self-test.
Max(a, b) == IF a >= b THEN a ELSE b

\* String.prototype.substring(start, end): both clamped to 0..length, swapped
\* when start > end
substring(str, start, end) ==
  LET clamp(x) == IF x < 0 THEN 0 ELSE IF x > Len(str) THEN Len(str) ELSE x
      lo == IF clamp(start) <= clamp(end) THEN clamp(start) ELSE clamp(end)
      hi == Max(clamp(start), clamp(end)) IN
    SubSeq(str, lo + 1, hi)

\* `${botToken.substring(0, 5)}...${botToken.substring(botToken.length - 5)}`
TokenHint(token) ==
  [head |-> substring(token, 0, 5),
   tail |-> substring(token, Len(token) - 5, Len(token))]

\* the tokens: texts of 1 to MaxTokenLen characters
Tokens == UNION {[1..n -> {"a", "b"}] : n \in 1..MaxTokenLen}

HintInit ==
  /\ Parked(Configs({60}, {{}}, {0}, {FALSE}))
  /\ reader = [pc |-> "none"]
  /\ metricsTable = <<>> /\ readBack = <<>>
  /\ gauges = [g \in MetricKeys |-> 0] /\ statusFile = <<>>
  /\ botToken \in Tokens
  /\ logLines = <<>>

notHint == <<loopVars, reader, metricsTable, readBack, gauges, statusFile, botToken>>

\* sendTelegramAlert after the loop: logger.error(`BOT_TOKEN: ...`)
LogFailedDispatch ==
  /\ logLines = <<>>
  /\ logLines' = <<[from |-> "sendTelegramAlert", hint |-> TokenHint(botToken)]>>
  /\ UNCHANGED notHint

\* the catch of testTelegramConnection: logger.error(`BOT_TOKEN: ...`)
LogFailedSelfTest ==
  /\ logLines = <<>>
  /\ logLines' = <<[from |-> "testTelegramConnection", hint |-> TokenHint(botToken)]>>
  /\ UNCHANGED notHint

HintNext == LogFailedDispatch \/ LogFailedSelfTest

HintSpec == HintInit /\ [][HintNext]_vars

\* =================================================================== claims
\* the slots whose tick is inside a call of sendTelegramAlert past the rate limiter
\* check (a suppressed call shows as "returned" with passed = FALSE)
Calls == {s \in Slots : InCall(ticks[s])}

\* the dispatch of slot s follows, less than 600 seconds later, an earlier
\* dispatch of the same kind, with checkInterval = 60
SecondWithin600(s) ==
  /\ cfg.checkInterval = 60
  /\ ticks[s].call.prev.exists
  /\ ticks[s].call.currentTime - ticks[s].call.prev.start < 600

C2_GateIff ==
  \A s \in Calls :
    LET c == ticks[s].call IN
      /\ c.passed <=> (c.currentTime - c.seenLast >= cfg.checkInterval * 10)
      /\ ~c.passed =>
           /\ ticks[s].pc = "returned"
           /\ c.result = "false"
           /\ c.attempts = 0
           /\ c.recs = <<>>
           /\ ~c.wrote

\* the rate limiter lets a dispatch pass exactly at the boundary, after a delivery
C2_Witness ==
  \E s \in Calls :
    LET c == ticks[s].call IN
      /\ c.seenLast > 0
      /\ c.currentTime - c.seenLast = cfg.checkInterval * 10
      /\ c.passed
      /\ c.attempts > 0

\* C3, as stated: with the database on, a dispatch that passed the rate limiter
\* and whose 3 attempts all failed has handed exactly one record, with
\* sentSuccessfully = false, to db.storeAlert, finds lastAlertTimes[kind] as it
\* was when the dispatch began, and returns false.
C3_AllAttemptsFail ==
  \A s \in Calls :
    LET c == ticks[s].call IN
      (HasDb /\ ticks[s].pc = "returned" /\ c.passed /\ c.attempts = 3 /\ ~c.success) =>
        /\ Len(c.recs) = 1
        /\ ~c.recs[1].sentSuccessfully
        /\ lastAlertTimes[KindOf(ticks[s])] = c.seenLast
        /\ c.result = "false"

\* C4: every step of a dispatch in which attempt k (1 <= k <= 3) is the first to
\* succeed: the success comes after k - 1 failures, writes currentTime to
\* lastAlertTimes[kind]; no attempt follows a success; and the dispatch that
\* succeeded returns true.
C4_SuccessOnAttempt ==
  [][\A s \in Slots :
       LET t == ticks[s]
           u == ticks'[s] IN
         (InCall(t) /\ u.pc # t.pc) =>
           /\ (u.call.success /\ ~t.call.success) =>
                /\ t.pc = "send"
                /\ t.call.attempts \in 1..3
                /\ t.call.attempts = t.call.retry + 1
                /\ lastAlertTimes'[KindOf(t)] = t.call.currentTime
           /\ t.call.success =>
                /\ InCall(u) => (u.call.attempts = t.call.attempts /\ u.call.success)
                /\ u.pc # "send"
           /\ (u.pc = "returned" /\ u.call.success) => u.call.result = "true"
           /\ (u.pc = "returned" /\ u.call.result = "true") => u.call.success]_vars

\* a dispatch that succeeded on its third attempt has returned
C4_Witness ==
  \E s \in Calls :
    /\ ticks[s].pc = "returned"
    /\ ticks[s].call.success
    /\ ticks[s].call.attempts = 3
    /\ ticks[s].call.retry = 2
    /\ ticks[s].call.result = "true"
    /\ lastAlertTimes[KindOf(ticks[s])] = ticks[s].call.currentTime

\* the steps a dispatch has left at most, by its position in the retry loop
Rank(t) ==
  CASE t.pc = "gate" -> 3 * maxRetries + 2
    [] t.pc = "format" -> 3 * maxRetries + 1
    [] t.pc = "send" -> 3 * (maxRetries - t.call.retry)
    [] t.pc = "backoff" -> 3 * (maxRetries - t.call.retry) + 2
    [] t.pc = "store" -> 1
    [] OTHER -> 0

\* C5: a dispatch terminates with a boolean after at most 3 attempts and never
\* throws: each of its steps (transport success or failure, database on or off,
\* formatAlert throwing or not) brings it strictly closer to its return, it never
\* makes a fourth attempt, and it leaves only by returning true or false.
C5_Terminates ==
  [][\A s \in Slots :
       LET t == ticks[s]
           u == ticks'[s] IN
         ((t.pc = "gate" \/ (InCall(t) /\ t.pc # "returned")) /\ u.pc # t.pc) =>
           /\ Rank(u) < Rank(t)
           /\ Rank(u) >= 0
           /\ u.pc \in {"format", "send", "backoff", "store", "returned"}
           /\ u.call.attempts <= 3
           /\ u.pc = "returned" => u.call.result \in {"true", "false"}]_vars

\* a dispatch has returned false after three failed attempts
C5_Witness ==
  \E s \in Calls :
    /\ ticks[s].pc = "returned"
    /\ ticks[s].call.attempts = 3
    /\ ticks[s].call.retry = 3
    /\ ticks[s].call.result = "false"

\* C6: lastAlertTimes[kind] changes only in the step of a dispatch of that kind in
\* which bot.sendMessage succeeds, and then to the entry time of that dispatch: not
\* in a step of another kind, of a suppressed or failed dispatch, of the sinks or
\* of the self-test.
C6_OnlySuccessWrites ==
  [][\A k \in Kinds :
       lastAlertTimes'[k] # lastAlertTimes[k] =>
         \E s \in Slots :
           /\ ticks[s].pc = "send"
           /\ KindOf(ticks[s]) = k
           /\ ticks[s].call.passed
           /\ ~ticks[s].call.success
           /\ ticks'[s].call.success
           /\ lastAlertTimes'[k] = ticks[s].call.currentTime]_vars

\* in one tick the RAM dispatch failed and the CPU dispatch was delivered
C6_Witness ==
  \E s \in Calls :
    /\ KindOf(ticks[s]) = "cpu"
    /\ "ram" \in ticks[s].started
    /\ ticks[s].call.success
    /\ lastAlertTimes["cpu"] = ticks[s].call.currentTime
    /\ lastAlertTimes["ram"] = 0

\* C7, as stated: bot.sendMessage is not called for a kind until checkInterval * 10
\* seconds have passed since the moment of the last successful delivery for it.
C7_FromDelivery ==
  \A s \in Slots :
    (ticks[s].pc = "send" /\ lastSuccessAt[KindOf(ticks[s])] > 0) =>
      now - lastSuccessAt[KindOf(ticks[s])] >= cfg.checkInterval * 10

\* C7, amended: a dispatch calls bot.sendMessage only if it was entered at least
\* checkInterval * 10 seconds after the entry time that the last successful
\* dispatch recorded in lastAlertTimes[kind], as read at its own entry.
C7_FromRecordedEntry ==
  \A s \in Calls :
    LET c == ticks[s].call IN
      (c.attempts > 0 \/ c.wrote \/ c.recs # <<>>) =>
        /\ c.seenLast <= c.currentTime
        /\ c.currentTime - c.seenLast >= cfg.checkInterval * 10

\* an attempt less than the cooldown after the last delivery, which was a retry
C7_Witness ==
  \E s \in Slots :
    LET c == ticks[s].call
        k == KindOf(ticks[s]) IN
      /\ cfg.checkInterval = 60
      /\ ticks[s].pc = "send"
      /\ c.seenLast > 0
      /\ lastSuccessAt[k] > c.seenLast
      /\ now - lastSuccessAt[k] < cfg.checkInterval * 10
      /\ c.currentTime - c.seenLast = cfg.checkInterval * 10

\* the breach of kind KindOrder[j] as the requirement states it: the monitor is
\* enabled (RAM always is) and a reading is at least the threshold
StatedBreach(j, m) ==
  LET k == KindOrder[j] IN
    /\ k = "ram" \/ cfg.monitor[k]
    /\ IF k = "network"
         THEN m["rx"] >= cfg.threshold[k] \/ m["tx"] >= cfg.threshold[k]
         ELSE m[k] >= cfg.threshold[k]

\* the same, with the swap reading required to be above zero
StatedBreachSwapAboveZero(j, m) ==
  StatedBreach(j, m) /\ (KindOrder[j] = "swap" => m["swap"] > 0)

\* C8, as stated: the threshold checks of a tick start a dispatch for a kind
\* exactly when the kind is enabled and its reading is at least its threshold,
\* readings and thresholds of zero included.
C8_DispatchIff ==
  [][\A s \in Slots :
       LET t == ticks[s]
           u == ticks'[s] IN
         (t.pc = "check" /\ u.pc # "check") =>
           /\ u.pc = "gate" =>
                /\ u.idx >= t.idx
                /\ StatedBreach(u.idx, t.metrics)
                /\ \A j \in t.idx..(u.idx - 1) : ~StatedBreach(j, t.metrics)
           /\ u.pc = "idle" =>
                \A j \in t.idx..Len(KindOrder) : ~StatedBreach(j, t.metrics)]_vars

\* C8, amended: the same, except that a dispatch for Swap is started only when
\* the swap reading is also above zero.
C8_DispatchIffSwapAboveZero ==
  [][\A s \in Slots :
       LET t == ticks[s]
           u == ticks'[s] IN
         (t.pc = "check" /\ u.pc # "check") =>
           /\ u.pc \in {"gate", "idle"}
           /\ u.pc = "gate" =>
                /\ u.idx >= t.idx
                /\ u.started = t.started \cup {KindOrder[u.idx]}
                /\ StatedBreachSwapAboveZero(u.idx, t.metrics)
                /\ \A j \in t.idx..(u.idx - 1) :
                     ~StatedBreachSwapAboveZero(j, t.metrics)
           /\ u.pc = "idle" =>
                \A j \in t.idx..Len(KindOrder) :
                  ~StatedBreachSwapAboveZero(j, t.metrics)]_vars

\* a tick with swap enabled, reading and threshold both zero, went past the swap
\* check without a dispatch and started one for load
C8_Witness ==
  \E s \in Slots :
    /\ cfg.monitor["swap"]
    /\ cfg.threshold["swap"] = 0
    /\ ticks[s].metrics["swap"] = 0
    /\ ticks[s].pc = "gate"
    /\ KindOf(ticks[s]) = "load"
    /\ "swap" \notin ticks[s].started

\* C9: no dispatch is started in a tick for a kind whose reading (both readings,
\* for Network) is strictly below its threshold.
C9_BelowThreshold ==
  \A s \in Slots : \A k \in ticks[s].started :
    IF k = "network"
      THEN ~(/\ ticks[s].metrics["rx"] < cfg.threshold[k]
             /\ ticks[s].metrics["tx"] < cfg.threshold[k])
      ELSE ~(ticks[s].metrics[k] < cfg.threshold[k])

\* a tick skipped RAM, whose reading is below the threshold, and dispatched for CPU
C9_Witness ==
  \E s \in Slots :
    /\ ticks[s].pc = "gate"
    /\ KindOf(ticks[s]) = "cpu"
    /\ ticks[s].metrics["ram"] < cfg.threshold["ram"]
    /\ ticks[s].started = {"cpu"}

\* C10: no dispatch is started for a kind whose monitor is disabled, whatever
\* its threshold; its reading is 0 whatever the OS reports.
C10_DisabledNeverDispatch ==
  \A s \in Slots : \A k \in OptKinds :
    ~cfg.monitor[k] =>
      /\ k \notin ticks[s].started
      /\ IF k = "network"
           THEN ticks[s].metrics["rx"] = 0 /\ ticks[s].metrics["tx"] = 0
           ELSE ticks[s].metrics[k] = 0

\* a tick went past the disabled disk check, threshold 0, and dispatched for load
C10_Witness ==
  \E s \in Slots :
    /\ ~cfg.monitor["disk"]
    /\ cfg.threshold["disk"] = 0
    /\ ticks[s].pc = "gate"
    /\ KindOf(ticks[s]) = "load"
    /\ "disk" \notin ticks[s].started

\* C11, as stated: a tick invokes no OS capability of a kind whose monitor flag
\* is false (CPU: si.currentLoad; Disk: si.fsSize and the du subprocess; Load:
\* os.loadavg; Network: si.networkStats; Swap is read through si.mem, which the
\* RAM reader always invokes), the dispatch of an alert of another kind included.
C11_DisabledNotProbed ==
  \A s \in Slots :
    /\ ~cfg.monitor["cpu"] => "currentLoad" \notin ticks[s].probes
    /\ ~cfg.monitor["disk"] => ticks[s].probes \cap {"fsSize", "du"} = {}
    /\ ~cfg.monitor["load"] => "loadavg" \notin ticks[s].probes
    /\ ~cfg.monitor["network"] => "networkStats" \notin ticks[s].probes

\* the position of kind k in the order of the threshold checks
Pos(k) == CHOOSE j \in 1..Len(KindOrder) : KindOrder[j] = k

\* C12: within a tick the dispatches start in the order RAM, CPU, Disk, Swap,
\* Load, Network: a dispatch starts from the threshold checks, which the tick
\* reaches only from the sinks or from the return of its previous dispatch, for a
\* kind later in the order than every kind dispatched before in the tick, and
\* when every earlier breaching kind has been dispatched.
C12_FixedOrder ==
  [][\A s \in Slots :
       LET t == ticks[s]
           u == ticks'[s] IN
         /\ (u.pc = "gate" /\ t.pc # "gate") =>
              /\ t.pc = "check"
              /\ t.call = NoCall
              /\ \A k \in t.started : Pos(k) < u.idx
              /\ u.started = t.started \cup {KindOrder[u.idx]}
              /\ \A j \in 1..(u.idx - 1) :
                   Breach(KindOrder[j], t.metrics) => KindOrder[j] \in t.started
         /\ (u.pc = "check" /\ t.pc # "check") =>
              /\ t.pc \in {"sinks", "returned"}
              /\ t.pc = "returned" => u.idx = t.idx + 1
         /\ (InCall(t) /\ t.pc # "returned" /\ u.pc # t.pc) => InCall(u)]_vars

\* the load dispatch of a tick starts after its RAM and swap dispatches
C12_Witness ==
  \E s \in Slots :
    /\ ticks[s].pc = "gate"
    /\ KindOf(ticks[s]) = "load"
    /\ ticks[s].started = {"ram", "swap", "load"}

\* C13: with network monitoring on, when the threshold checks of a tick come to
\* the network check, a Network dispatch starts exactly when the Rx or the Tx rate
\* is at least network.threshold; none has started before in the tick, and the
\* tick ends when it returns, so there is at most one per tick.
C13_NetworkEither ==
  [][\A s \in Slots :
       LET t == ticks[s]
           u == ticks'[s]
           m == t.metrics
           th == cfg.threshold["network"] IN
         /\ (/\ cfg.monitor["network"]
             /\ t.pc = "check"
             /\ u.pc # "check"
             /\ \A j \in t.idx..(Len(KindOrder) - 1) : ~Breach(KindOrder[j], m)) =>
              /\ "network" \notin t.started
              /\ (u.pc = "gate" /\ KindOf(u) = "network" /\ "network" \in u.started)
                   <=> (m["rx"] >= th \/ m["tx"] >= th)
              /\ ~(m["rx"] >= th \/ m["tx"] >= th) => u.pc = "idle"
         /\ (t.pc = "returned" /\ KindOf(t) = "network" /\ u.pc # "returned") =>
              u.pc = "idle"]_vars

\* a Network dispatch, the only one of its tick, with both rates at the threshold
C13_Witness ==
  \E s \in Slots :
    /\ ticks[s].pc = "returned"
    /\ KindOf(ticks[s]) = "network"
    /\ cfg.threshold["network"] = 1
    /\ ticks[s].metrics["rx"] = 1
    /\ ticks[s].metrics["tx"] = 1
    /\ ticks[s].metrics["ram"] = 0
    /\ ticks[s].started = {"network"}

\* C14: an exception thrown in a tick is caught in its callback, which ends
\* without touching the scheduler or lastAlertTimes; the scheduler never stops;
\* and time never passes a second the cron pattern matches, within the explored
\* horizon and with a callback instance free, without a tick having started in it.
C14_ThrowIsCaught ==
  [][/\ sched = "running" => sched' = "running"
     /\ \A s \in Slots :
          (ticks[s].pc = "thrown" /\ ticks'[s].pc # "thrown") =>
            /\ ticks'[s].pc = "idle"
            /\ UNCHANGED <<sched, lastFire, lastAlertTimes, now>>
     /\ (now' # now) =>
          \/ (now % 60) % cfg.checkInterval # 0
          \/ lastFire = now
          \/ now > Horizon
          \/ \A s \in Slots : ticks[s].pc # "idle"]_vars

\* a tick throws after three earlier ticks threw and were caught
C14_Witness ==
  \E s \in Slots :
    /\ cfg.undefinedKey # "none"
    /\ ticks[s].pc = "thrown"
    /\ now >= Epoch + 4 * cfg.checkInterval
    /\ lastFire = now

\* C15: the self-test completes, passed or failed, before any tick starts; it is
\* left once, for the scheduled loop, whatever its result; and after a failed
\* self-test time never passes a second the cron pattern matches (within the
\* explored horizon, a callback instance free) without a tick having started.
C15_SelfTestFirst ==
  [][/\ sched = "testing" =>
          /\ \A s \in Slots : ticks[s].pc = "idle" /\ ticks'[s].pc = "idle"
          /\ now' = now
          /\ sched' \in {"testing", "running"}
     /\ sched # "testing" => sched' = "running"
     /\ (\E s \in Slots : ticks[s].pc = "idle" /\ ticks'[s].pc # "idle") =>
          sched = "running"
     /\ (~env.reachableAtStart /\ now' # now) =>
          \/ (now % 60) % cfg.checkInterval # 0
          \/ lastFire = now
          \/ now > Horizon
          \/ \A s \in Slots : ticks[s].pc # "idle"]_vars

\* after a failed self-test the second tick has dispatched
C15_Witness ==
  \E s \in Slots :
    /\ ~env.reachableAtStart
    /\ sched = "running"
    /\ ticks[s].pc = "send"
    /\ lastFire = Epoch + 2 * cfg.checkInterval

\* C16, as stated: at most one tick is in progress at any time, for every
\* checkInterval.
C16_OneTickAtATime ==
  \A s1, s2 \in Slots :
    (ticks[s1].pc # "idle" /\ ticks[s2].pc # "idle") => s1 = s2

\* C17, as stated: consecutive ticks start exactly checkInterval seconds apart.
C17_FixedRate ==
  [][(/\ \E s \in Slots : ticks[s].pc = "idle" /\ ticks'[s].pc = "sample"
      /\ lastFire > Epoch) =>
       now - lastFire = cfg.checkInterval]_vars

\* C18: the sink step of a tick calls storeMetrics when the database is on (and
\* set up),
\* updatePrometheusMetrics when Prometheus is on, and updateStatusFile always,
\* whichever of them fail; none is called when it is off; and the tick goes on to
\* the threshold checks, so no failure leaves its sink action.
C18_SinksIsolated ==
  [][\A s \in Slots :
       LET t == ticks[s]
           u == ticks'[s] IN
         (t.pc = "sinks" /\ u.pc # "sinks") =>
           /\ u.pc = "check"
           /\ u.metrics = t.metrics
           /\ u.sinks["metrics"] \in
                (IF HasDb THEN {"done", "failed"} ELSE {"skipped"})
           /\ u.sinks["gauges"] \in
                (IF cfg.prometheus THEN {"done", "failed"} ELSE {"skipped"})
           /\ u.sinks["status"] \in {"done", "failed"}]_vars

\* the status file was written in a tick whose database write and gauge update failed
C18_Witness ==
  \E s \in Slots :
    /\ ticks[s].sinks["metrics"] = "failed"
    /\ ticks[s].sinks["gauges"] = "failed"
    /\ ticks[s].sinks["status"] = "done"

\* C19: in a tick whose storeMetrics failed the gauges are still updated (when
\* Prometheus is on) and the threshold checks still run: they start a dispatch
\* for the first kind that breaches, and after each dispatch for the next.
C19_PersistFailureHarmless ==
  [][\A s \in Slots :
       LET t == ticks[s]
           u == ticks'[s] IN
         /\ (t.pc = "sinks" /\ u.pc # "sinks" /\ u.sinks["metrics"] = "failed") =>
              /\ u.pc = "check"
              /\ u.idx = 1
              /\ cfg.prometheus => u.sinks["gauges"] \in {"done", "failed"}
         /\ (t.sinks["metrics"] = "failed" /\ t.pc = "check" /\ u.pc # "check") =>
              /\ u.pc = "gate" =>
                   /\ Breach(KindOrder[u.idx], t.metrics)
                   /\ \A j \in t.idx..(u.idx - 1) : ~Breach(KindOrder[j], t.metrics)
              /\ u.pc # "gate" =>
                   /\ u.pc = "idle"
                   /\ \A j \in t.idx..Len(KindOrder) : ~Breach(KindOrder[j], t.metrics)
         /\ (t.sinks["metrics"] = "failed" /\ t.pc = "returned" /\ u.pc # "returned") =>
              (u.pc = "check" \/ t.idx = Len(KindOrder))]_vars

\* storeMetrics failed, the gauges were updated, and the tick has dispatched for
\* RAM and started the dispatch for CPU
C19_Witness ==
  \E s \in Slots :
    /\ ticks[s].sinks["metrics"] = "failed"
    /\ ticks[s].sinks["gauges"] = "done"
    /\ ticks[s].pc = "gate"
    /\ ticks[s].started = {"ram", "cpu"}

\* the record of the dispatch in slot s is the one of its breach, with flag b
RecordOf(s, b) ==
  LET t == ticks[s] IN
    /\ Len(t.call.recs) = 1
    /\ t.call.recs[1].kind = KindOf(t)
    /\ t.call.recs[1].value = usageValue(KindOf(t), t.metrics)
    /\ t.call.recs[1].sentSuccessfully = b

\* C20 as stated: with the database on, every dispatch that passed the rate
\* limiter and has returned has handed exactly one AlertRecord to the database,
\* with the kind and value of the breach and sentSuccessfully = its result.
C20_EveryPassedDispatch ==
  \A s \in Slots :
    (HasDb /\ ticks[s].pc = "returned" /\ ticks[s].call.passed) =>
      RecordOf(s, ticks[s].call.result = "true")

\* C20, amended: with the database on, a dispatch that passed the rate limiter,
\* called bot.sendMessage and has returned has handed exactly one AlertRecord to
\* the database, with the kind and value of the breach and sentSuccessfully = its
\* result, which is false only after 3 failed attempts; a dispatch whose message
\* could not be formatted, or that the rate limiter suppressed, has handed none;
\* and no dispatch hands over more than one, or any with the database off.
C20_OneRecordPerAttemptedDispatch ==
  \A s \in Slots :
    LET t == ticks[s]
        c == t.call IN
      /\ Len(c.recs) <= 1
      /\ ~HasDb => c.recs = <<>>
      /\ (HasDb /\ t.pc = "returned") =>
           /\ (c.passed /\ c.attempts > 0) =>
                /\ RecordOf(s, c.result = "true")
                /\ c.result = "false" => c.attempts = maxRetries
           /\ (c.passed /\ c.attempts = 0) => (c.recs = <<>> /\ c.result = "false")
           /\ ~c.passed => (c.recs = <<>> /\ c.result = "false")

\* a dispatch has returned false after 3 attempts with its one record
C20_Witness ==
  \E s \in Slots :
    /\ HasDb
    /\ ticks[s].pc = "returned"
    /\ ticks[s].call.passed
    /\ ticks[s].call.attempts = maxRetries
    /\ ticks[s].call.result = "false"
    /\ RecordOf(s, FALSE)

\* C21: when db.storeAlert fails on the record of a delivered alert, the
\* dispatch returns true without another delivery attempt, the alert time
\* recorded by the delivery stays, and the tick goes on to the check of the
\* next kind (or ends after the last); after a failed dispatch it returns false.
C21_RecordFailureHarmless ==
  [][\A s \in Slots :
       LET t == ticks[s]
           u == ticks'[s] IN
         /\ (t.pc = "store" /\ u.pc # "store" /\ ~u.call.recs[1].stored) =>
              /\ u.pc = "returned"
              /\ u.call.result = (IF t.call.success THEN "true" ELSE "false")
              /\ u.call.attempts = t.call.attempts
              /\ lastAlertTimes' = lastAlertTimes
              /\ t.call.success => lastAlertTimes'[KindOf(t)] = t.call.currentTime
         /\ (t.pc = "returned" /\ u.pc # "returned"
               /\ t.call.recs # <<>> /\ ~t.call.recs[1].stored) =>
              IF t.idx < Len(KindOrder)
                THEN u.pc = "check" /\ u.idx = t.idx + 1 /\ u.metrics = t.metrics
                ELSE u.pc = "idle"]_vars

\* an alert was delivered at the second attempt, db.storeAlert failed on its
\* record, and the dispatch has returned true with the alert time recorded
C21_Witness ==
  \E s \in Slots :
    /\ ticks[s].pc = "returned"
    /\ ticks[s].call.result = "true"
    /\ ticks[s].call.attempts = 2
    /\ Len(ticks[s].call.recs) = 1
    /\ ~ticks[s].call.recs[1].stored
    /\ lastAlertTimes[KindOf(ticks[s])] = ticks[s].call.currentTime

\* C22: with Prometheus on, a step adds 1 to the alert counter of a kind exactly
\* when it is the delivery of an alert of that kind (bot.sendMessage resolved),
\* and no step changes a counter otherwise; with Prometheus off the counters stay 0.
C22_CounterPerDelivery ==
  [][\A k \in Kinds :
       LET delivered ==
             {s \in Slots : /\ ticks[s].pc = "send"
                            /\ KindOf(ticks[s]) = k
                            /\ ticks'[s].call.success} IN
         alertCounters'[k] =
           alertCounters[k] + (IF cfg.prometheus THEN Cardinality(delivered) ELSE 0)]_vars

\* a RAM alert was delivered at the second attempt: one failed attempt, one
\* count, and the counters of the other kinds at 0
C22_Witness ==
  \E s \in Slots :
    /\ cfg.prometheus
    /\ ticks[s].pc = "returned"
    /\ KindOf(ticks[s]) = "ram"
    /\ ticks[s].call.result = "true"
    /\ ticks[s].call.attempts = 2
    /\ alertCounters = [k \in Kinds |-> IF k = "ram" THEN 1 ELSE 0]

\* the network reader took both samples and found the interface in both
BothSampled ==
  /\ reader.pc = "done"
  /\ reader.kind = "network"
  /\ cfg.monitor["network"]
  /\ reader.first.ok /\ reader.first.rows # <<>>
  /\ reader.second.ok /\ reader.second.rows # <<>>

\* C23: whatever the OS answers, every reading a reader returns is >= 0: the one
\* value of the RAM, CPU, disk, swap and load readers, the rx and the tx rate of
\* the network reader.
C23_ReadingsNonNegative ==
  reader.pc = "done" =>
    IF reader.kind = "network"
      THEN reader.result[1][1] >= 0 /\ reader.result[2][1] >= 0
      ELSE reader.result[1] >= 0

\* C24: with the network monitor on, the reader never ends otherwise than by
\* returning, and it returns (0, 0) when the first or the second networkStats
\* is rejected or has no entry for the interface.
C24_NetworkFailureZero ==
  /\ reader.pc \in {"none", "ready", "waiting", "done"}
  /\ (reader.pc = "done" /\ reader.kind = "network" /\ cfg.monitor["network"]
        /\ ~BothSampled) =>
       reader.result = <<<<0, 1>>, <<0, 1>>>>

\* the first sample had counters above 0, the second had no entry for the
\* interface, and the reader returned (0, 0)
C24_Witness ==
  /\ reader.pc = "done" /\ reader.kind = "network" /\ cfg.monitor["network"]
  /\ reader.first.ok /\ reader.first.rows # <<>>
  /\ reader.first.rows[1].rx_bytes = 1000000
  /\ reader.second = Answer(<<>>)
  /\ reader.result = <<<<0, 1>>, <<0, 1>>>>

\* the fraction q times 1024 * 1024 is the whole number n
TimesMebiIs(q, n) ==
  /\ (1024 * 1024) % q[2] = 0
  /\ q[1] * ((1024 * 1024) \div q[2]) = n

\* C25: for every pair of samples the rx (tx) rate times 1024 * 1024 is the
\* difference of the rx (tx) byte counters times 8; from 1,000,000 to 2,048,000
\* bytes the rate is 7.99... (799 hundredths, cut).
C25_RateIsBitsPerMebi ==
  BothSampled =>
    LET a == reader.first.rows[1]
        b == reader.second.rows[1] IN
      /\ TimesMebiIs(reader.result[1], (b.rx_bytes - a.rx_bytes) * 8)
      /\ TimesMebiIs(reader.result[2], (b.tx_bytes - a.tx_bytes) * 8)
      /\ (a.rx_bytes = 1000000 /\ b.rx_bytes = 2048000) =>
           (reader.result[1][1] * 100) \div reader.result[1][2] = 799

\* the samples of the scenario: rx from 1,000,000 to 2,048,000 bytes
C25_Witness ==
  /\ BothSampled
  /\ reader.first.rows[1].rx_bytes = 1000000
  /\ reader.second.rows[1].rx_bytes = 2048000
  /\ reader.result[1] = <<16375, 2048>>

\* C26: the row that getRecentMetrics(1) returns is the row inserted last, in
\* every column but the id, also when rows share a timestamp.
C26_ReadBackIsLastAppended ==
  readBack # <<>> =>
    LET last == metricsTable[Len(metricsTable)] IN
      /\ readBack[1].timestamp = last.timestamp
      /\ readBack[1].ram_usage = last.ram_usage

\* the tick is at its threshold checks or in a dispatch
Evaluating(t) ==
  t.pc \in {"check", "gate", "format", "send", "backoff", "store", "returned"}

\* the three sink actions of the tick have been gone through
SinksRun(t) == \A x \in SinkNames : t.sinks[x] # "none"

LinesOf(k) == {j \in 1..Len(statusFile) : statusFile[j].kind = k}

\* the status file holds exactly one line of kind k, with the reading of the
\* snapshot, if `present`, and none otherwise
HasLineIff(k, present) ==
  IF present
    THEN /\ Cardinality(LinesOf(k)) = 1
         /\ \A j \in LinesOf(k) : statusFile[j].value = usageValue(k, ticks[1].metrics)
    ELSE LinesOf(k) = {}

\* C28 as stated: the status file written for a snapshot has exactly one line
\* for RAM and for every kind whose monitor is on, whatever the reading, and no
\* line for a kind whose monitor is off.
C28_OneLinePerEnabledKind ==
  ticks[1].sinks["status"] = "done" =>
    \A k \in Kinds : HasLineIff(k, k = "ram" \/ cfg.monitor[k])

\* C28, amended: the status file written for a snapshot has exactly one line for
\* RAM and for each of CPU, Disk, Load, Network whose monitor is on, whatever
\* the reading (0 included); a line for Swap exactly when its monitor is on and
\* its reading is above 0; no line for a kind whose monitor is off.
C28_OneLinePerEnabledKindSwapAboveZero ==
  ticks[1].sinks["status"] = "done" =>
    \A k \in Kinds :
      HasLineIff(k, \/ k = "ram"
                    \/ k # "swap" /\ cfg.monitor[k]
                    \/ k = "swap" /\ cfg.monitor[k] /\ ticks[1].metrics["swap"] > 0)

\* the monitors of CPU, swap and network are on, every reading is 0, and the
\* file has the three lines of RAM, CPU and Network
C28_Witness ==
  /\ ticks[1].sinks["status"] = "done"
  /\ cfg.monitor["cpu"] /\ cfg.monitor["swap"] /\ cfg.monitor["network"]
  /\ \A x \in MetricKeys : ticks[1].metrics[x] = 0
  /\ Len(statusFile) = 3

\* C29: with Prometheus on, a gauge update that ran through leaves each of the
\* seven gauges at the reading of the tick's snapshot (0 for a kind whose
\* monitor is off), whatever they held before; with Prometheus off the gauges
\* are not touched.
C29_GaugesAreLastSnapshot ==
  [][/\ ticks'[1].sinks["gauges"] = "done" =>
          /\ cfg.prometheus
          /\ \A x \in MetricKeys : gauges'[x] = ticks'[1].metrics[x]
          /\ \A k \in ScalarKeys \ {"ram"} : ~cfg.monitor[k] => gauges'[k] = 0
          /\ ~cfg.monitor["network"] => (gauges'["rx"] = 0 /\ gauges'["tx"] = 0)
     /\ ~cfg.prometheus => gauges' = gauges]_vars

\* a tick with RAM at 0 has overwritten the gauge of a tick with RAM at 1
C29_Witness ==
  /\ ticks[1].sinks["gauges"] = "done"
  /\ ticks[1].metrics["ram"] = 0
  /\ gauges["ram"] = 0
  /\ statusFile # <<>> /\ statusFile[1].value = <<1>>

\* C30: a logged hint leaves out at least one character of the token: its head
\* (the first characters) and its tail (the last ones) together are shorter than
\* the token.
C30_HintHidesACharacter ==
  \A j \in 1..Len(logLines) :
    Len(logLines[j].hint.head) + Len(logLines[j].hint.tail) < Len(botToken)

\* C31: with the load monitor on, the load check of the tick holds for the
\* reading of checkLoadAverage exactly when the 1-minute load average divided by
\* the number of cores is >= load.threshold.
C31_LoadBreachIffRatio ==
  (reader.pc = "done" /\ reader.kind = "load" /\ cfg.monitor["load"] /\ reader.first.ok) =>
    LET info == reader.first.rows[1]
        m == [x \in MetricKeys |-> IF x = "load" THEN reader.result[1] ELSE 0] IN
      BreachLoad(m) <=>
        info.load[1] >= cfg.threshold["load"] * info.load[2] * info.cpuCount

\* C32: with the database on, a handle and no failure of the database itself,
\* whatever the backend (sqlite, mysql, postgresql), every tick that ran its sink
\* actions stored its MetricRecord and every AlertRecord of a dispatch is stored.
C32_EveryBackendStores ==
  \A s \in Slots :
    LET t == ticks[s] IN
      (HasDb /\ ~env.sinkFaults) =>
        /\ SinksRun(t) => t.sinks["metrics"] = "done"
        /\ \A i \in 1..Len(t.call.recs) : t.call.recs[i].stored

\* C33 (as stated): the first dispatch of a kind after the start of the process
\* is not suppressed and has made a delivery attempt when it returns.
C33_FirstDispatchAttempts ==
  \A s \in Slots :
    LET t == ticks[s] IN
      (t.pc = "returned" /\ ~t.call.prev.exists) =>
        t.call.passed /\ t.call.attempts >= 1

\* C33 (amended): lastAlertTimes is 0 for all six kinds at the start; the first
\* dispatch of a kind reads 0, passes the rate limiter and goes on to host
\* identity and formatting, and from there to its first delivery attempt unless
\* formatting throws, in which case it returns false without an attempt.
C33_FirstDispatchPassesGate ==
  [][\A s \in Slots :
       LET t == ticks[s]
           u == ticks'[s] IN
         /\ (t.pc = "gate" /\ u.pc # "gate" /\ ~lastD[KindOf(t)].exists) =>
              /\ lastAlertTimes[KindOf(t)] = 0
              /\ u.pc = "format" /\ u.call.passed /\ u.call.seenLast = 0
         /\ (t.pc = "format" /\ u.pc # "format" /\ ~t.call.prev.exists) =>
              \/ u.pc = "send" /\ u.call.attempts = 1
              \/ u.pc = "returned" /\ u.call.attempts = 0 /\ u.call.result = "false"]_vars

\* the first swap dispatch of the process is at its first delivery attempt
C33_Witness ==
  \E s \in Slots :
    /\ ticks[s].pc = "send"
    /\ KindOf(ticks[s]) = "swap"
    /\ ~ticks[s].call.prev.exists
    /\ ticks[s].call.seenLast = 0
    /\ ticks[s].call.attempts = 1

\* C34: two ticks that are inside a dispatch of the same kind at the same time
\* never both deliver its notification.
C34_NoDuplicateFromOverlap ==
  \A s1, s2 \in Slots :
    (/\ s1 # s2
     /\ InCall(ticks[s1]) /\ InCall(ticks[s2])
     /\ KindOf(ticks[s1]) = KindOf(ticks[s2])) =>
      ~(ticks[s1].call.success /\ ticks[s2].call.success)

\* C35: no step lowers lastAlertTimes of any kind.
C35_AlertTimesNeverGoBack ==
  [][\A k \in Kinds : lastAlertTimes'[k] >= lastAlertTimes[k]]_vars

\* C36: a dispatch takes its time (whole seconds) at its entry; the step of a
\* delivery sets lastAlertTimes of the kind to that entry time, whatever the
\* time of the delivery; no other step changes lastAlertTimes; and a dispatch
\* returns true exactly when it made that write.
C36_RecordsEntryTime ==
  [][/\ \A s \in Slots :
          LET t == ticks[s]
              u == ticks'[s] IN
            /\ (t.pc = "gate" /\ u.pc # "gate") => u.call.currentTime = now
            /\ (InCall(t) /\ InCall(u)) => u.call.currentTime = t.call.currentTime
            /\ (t.pc = "send" /\ u.call.success) =>
                 /\ lastAlertTimes'[KindOf(t)] = t.call.currentTime
                 /\ lastSuccessAt'[KindOf(t)] = now
            /\ (t.pc # "returned" /\ u.pc = "returned") =>
                 (u.call.result = "true" <=> u.call.wrote)
     /\ lastAlertTimes' # lastAlertTimes =>
          \E s \in Slots :
            /\ ticks[s].pc = "send" /\ ticks'[s].call.success
            /\ ~ticks[s].call.wrote /\ ticks'[s].call.wrote]_vars

\* a disk alert was delivered at the third attempt, 4 seconds after the entry of
\* its dispatch: the recorded time is the entry time and the dispatch returned true
C36_Witness ==
  \E s \in Slots :
    /\ ticks[s].pc = "returned"
    /\ KindOf(ticks[s]) = "disk"
    /\ ticks[s].call.result = "true"
    /\ ticks[s].call.attempts = 3
    /\ lastAlertTimes["disk"] = ticks[s].call.currentTime
    /\ lastSuccessAt["disk"] = ticks[s].call.currentTime + 2 * retryDelay
    /\ now = lastSuccessAt["disk"]

\* C37: the entry of a dispatch that the rate limiter suppresses returns false at
\* once: no delivery attempt, no read of the host identity, no AlertRecord, no
\* counter incremented and lastAlertTimes as before for every kind.
C37_SuppressedDoesNothing ==
  [][\A s \in Slots :
       LET t == ticks[s]
           u == ticks'[s] IN
         (/\ t.pc = "gate" /\ u.pc # "gate"
          /\ ~GatePasses(now, lastAlertTimes[KindOf(t)])) =>
           /\ u.pc = "returned" /\ u.call.result = "false" /\ ~u.call.passed
           /\ u.call.attempts = 0 /\ ~u.call.success /\ ~u.call.wrote
           /\ u.call.recs = <<>>
           /\ u.probes = t.probes /\ u.call.hostReads = 0
           /\ alertCounters' = alertCounters
           /\ lastAlertTimes' = lastAlertTimes
           /\ lastSuccessAt' = lastSuccessAt]_vars

\* a RAM dispatch was suppressed after an earlier RAM alert, with the database
\* and Prometheus on: it returned false without an attempt or a record, and the
\* counter still holds the one earlier delivery
C37_Witness ==
  \E s \in Slots :
    /\ ticks[s].pc = "returned"
    /\ KindOf(ticks[s]) = "ram"
    /\ HasDb /\ cfg.prometheus
    /\ ~ticks[s].call.passed
    /\ ticks[s].call.result = "false"
    /\ ticks[s].call.attempts = 0
    /\ ticks[s].call.recs = <<>>
    /\ ticks[s].call.hostReads = 0
    /\ lastAlertTimes["ram"] > 0
    /\ alertCounters["ram"] = 1

\* C38: a dispatch that passed the rate limiter and whose formatAlert throws
\* returns false with no delivery attempt, no AlertRecord, no counter
\* incremented and lastAlertTimes unchanged, and the tick then goes on with the
\* threshold check of the next kind (or ends after the last kind).
C38_FormatErrorContained ==
  [][\A s \in Slots :
       LET t == ticks[s]
           u == ticks'[s] IN
         /\ (t.pc = "format" /\ u.pc \notin {"format", "send"}) =>
              /\ t.call.passed
              /\ u.pc = "returned" /\ u.call.result = "false"
              /\ u.call.attempts = 0 /\ ~u.call.success /\ ~u.call.wrote
              /\ u.call.recs = <<>>
              /\ alertCounters' = alertCounters
              /\ lastAlertTimes' = lastAlertTimes
         /\ (t.pc = "returned" /\ u.pc # "returned"
               /\ t.call.passed /\ t.call.attempts = 0) =>
              IF t.idx < Len(KindOrder)
                THEN /\ u.pc = "check" /\ u.idx = t.idx + 1
                     /\ u.metrics = t.metrics /\ u.started = t.started
                ELSE u.pc = "idle"]_vars

\* formatAlert threw in the RAM dispatch of a tick, which went on: its swap
\* dispatch is at a delivery attempt, and nothing was recorded for RAM
C38_Witness ==
  \E s \in Slots :
    /\ ticks[s].pc = "send"
    /\ KindOf(ticks[s]) = "swap"
    /\ "ram" \in ticks[s].started
    /\ lastD["ram"].exists /\ ~lastD["ram"].attempted
    /\ lastAlertTimes["ram"] = 0
    /\ alertCounters["ram"] = 0

\* C39: whatever a dispatch returns, the tick resumes at the threshold check of
\* the next kind with its snapshot unchanged, and when the threshold checks of
\* a tick end, every kind that breaches in its snapshot has had its dispatch
\* started in that tick.
C39_EveryBreachDispatched ==
  [][\A s \in Slots :
       LET t == ticks[s]
           u == ticks'[s] IN
         /\ (t.pc = "returned" /\ u.pc # "returned" /\ t.idx < Len(KindOrder)) =>
              u.pc = "check" /\ u.idx = t.idx + 1 /\ u.metrics = t.metrics
         /\ (t.pc \in {"check", "returned"} /\ u.pc = "idle") =>
              \A k \in Kinds : Breach(k, t.metrics) => k \in t.started]_vars

\* in one tick the RAM dispatch failed at all 3 attempts, the swap dispatch
\* delivered, and the load dispatch is started
C39_Witness ==
  \E s \in Slots :
    /\ ticks[s].pc = "gate"
    /\ KindOf(ticks[s]) = "load"
    /\ ticks[s].started = {"ram", "swap", "load"}
    /\ lastD["ram"].attempted /\ lastAlertTimes["ram"] = 0
    /\ lastAlertTimes["swap"] > 0

\* C40: the RAM usage shown in the notification message of a dispatch, and in
\* the message of its AlertRecord, is the RAM reading of the snapshot of its tick.
C40_MessageFromSnapshot ==
  \A s \in Slots :
    LET t == ticks[s] IN
      /\ (InCall(t) /\ t.call.message # <<>>) => t.call.message[1] = t.metrics["ram"]
      /\ \A i \in 1..Len(t.call.recs) :
           t.call.recs[i].message[1] = t.metrics["ram"]

====
